---- MODULE Spec2Model ----
(***************************************************************************)
(* The gridcentric extension API of nova (api.py): bless_instance,         *)
(* launch_instance and discard_instance over the instance registry         *)
(* (self.db) and the RPC transport (rpc.cast / rpc.call).                  *)
(*                                                                         *)
(* Spec      every API call is one atomic step (one request at a time).    *)
(* SpecConc  every registry access and every message send of a request is  *)
(*           a step of its own, and requests of several callers interleave.*)
(* SpecSteps the steps of SpecConc, taken by one caller.                   *)
(* SpecMsg   the senders of worker messages (bless, discard, migrate) over *)
(*           a registry whose records are placed on hosts.                 *)
(*                                                                         *)
(* The hypervisor connection (vmsconn.py):                                 *)
(* SpecLaunch  VmsConnection.launch, hook by hook.                         *)
(* SpecFetch   the artifact download in LibvirtConnection.pre_launch, by   *)
(*             several launches at once over one image cache directory.    *)
(* SpecArtifacts  bless, post_bless, bless_cleanup and discard over the    *)
(*             artifact store and the local blessed files.                 *)
(* SpecDispatch   get_vms_connection.                                      *)
(* SpecCache   the artifact download of LibvirtConnection.pre_launch as    *)
(*             one step, one launch at a time.                             *)
(* SpecClean   LibvirtConnection.periodic_clean over the volume group      *)
(*             directory.                                                  *)
(* SpecTransfer   export_instance and import_instance and their temporary  *)
(*             files.                                                      *)
(***************************************************************************)
EXTENDS Integers, Sequences, FiniteSets, TLC

VARIABLES instances, sent, last, procs, vms_launches, files, fetchers,
          use_image_service, store, local_files, images_created, vlast, trip,
          connections, vg_dir, clean_conf, clast, tmp_files, xlast,
          image_version, plast

\* the state of the API (api.py) and of the hypervisor connection (vmsconn.py)
apiVars == <<instances, sent, last, procs>>

launchVars == <<vms_launches>>

fetchVars == <<files, fetchers>>

\* the artifact store, the local blessed files and the calls that use them
artVars == <<use_image_service, store, local_files, images_created, vlast, trip>>

\* the connections handed out by get_vms_connection
dispVars == <<connections>>

\* the volume group directory swept by periodic_clean
cleanVars == <<vg_dir, clean_conf, clast>>

\* the temporary files of export_instance and import_instance
xferVars == <<tmp_files, xlast>>

\* the image a launch fetches, and the pre_launch calls that fetch it
cacheVars == <<image_version, plast>>

vmsVars == <<launchVars, fetchVars, artVars, dispVars, cleanVars, xferVars, cacheVars>>

notLaunch == <<apiVars, fetchVars, artVars, dispVars, cleanVars, xferVars, cacheVars>>

notFetch == <<apiVars, launchVars, artVars, dispVars, cleanVars, xferVars, cacheVars>>

notArt == <<apiVars, launchVars, fetchVars, dispVars, cleanVars, xferVars, cacheVars>>

notDisp == <<apiVars, launchVars, fetchVars, artVars, cleanVars, xferVars, cacheVars>>

notClean == <<apiVars, launchVars, fetchVars, artVars, dispVars, xferVars, cacheVars>>

notXfer == <<apiVars, launchVars, fetchVars, artVars, dispVars, cleanVars, cacheVars>>

\* pre_launch as one step changes the image cache (files) and cacheVars
notCache == <<apiVars, launchVars, fetchers, dispVars, cleanVars, xferVars>>

vars == <<apiVars, vmsVars>>

(***************************************************************************)
(* Bounds of the model.                                                    *)
(***************************************************************************)
MaxInstances == 3
MaxProcs == 2
MaxRequests == 2
MaxNumInstances == 2
MaxLaunches == 2
MaxFetchers == 2
ImageChunks == 2
MaxImages == 2
MaxConnections == 3
MaxEntries == 3
MaxVersions == 3
MaxArchives == 2
MaxMessages == 2

(***************************************************************************)
(* Strings are sequences of one-character strings.                         *)
(***************************************************************************)
DigitChars == <<"0", "1", "2", "3", "4", "5", "6", "7", "8", "9">>

\* '%s' % n  and  str(n)  for a natural number n
RECURSIVE ToStr(_)
ToStr(n) ==
    IF n < 10 THEN <<DigitChars[n + 1]>>
    ELSE ToStr(n \div 10) \o <<DigitChars[(n % 10) + 1]>>

DigitVal(c) == CHOOSE d \in 0..9 : DigitChars[d + 1] = c

\* int(s) for a string of decimal digits
RECURSIVE ParseInt(_)
ParseInt(s) ==
    IF Len(s) = 1 THEN DigitVal(s[1])
    ELSE 10 * ParseInt(SubSeq(s, 1, Len(s) - 1)) + DigitVal(s[Len(s)])

(***************************************************************************)
(* vm_states, hosts, names, topics.                                        *)
(***************************************************************************)
BUILDING == "building"
ACTIVE == "active"
DELETED == "deleted"
VmStates == {BUILDING, ACTIVE}

NoHost == "None"
Hosts == {"h1"}
DisplayNames == {<<"a">>}

gridcentric_topic == "gridcentric"
scheduler_topic == "scheduler"

(***************************************************************************)
(* Instance metadata: a dict, as a set of <<key, value>> pairs with at     *)
(* most one pair per key.                                                  *)
(***************************************************************************)
MdHas(md, k) == \E p \in md : p[1] = k
MdGet(md, k) == (CHOOSE p \in md : p[1] = k)[2]
MdPut(md, k, v) == {p \in md : p[1] # k} \cup {<<k, v>>}

NoRecord ==
    [vm_state |-> "none", deleted |-> TRUE, host |-> NoHost,
     display_name |-> <<>>, metadata |-> {}]

(***************************************************************************)
(* The registry (self.db, compute_api.get_all).  An instance's id is its   *)
(* index in the table; deleting is a soft delete.                          *)
(***************************************************************************)
Ids == 1..MaxInstances

instance_exists_IgnoreDeleted(db, id) == id \in 1..Len(db)

instance_exists(db, id) == id \in 1..Len(db) /\ ~db[id].deleted

\* self.db.instance_get: the row (the caller has checked instance_exists)
instance_get(db, id) == db[id]

\* self.db.instance_metadata_get
instance_metadata_get(db, id) == db[id].metadata

\* self.db.instance_metadata_update(context, id, metadata, True)
instance_metadata_update(db, id, md) == [db EXCEPT ![id].metadata = md]

\* self.db.instance_create: the new row gets the next id
instance_create(db, rec) == Append(db, rec)

\* compute_api.get_all(context, {'metadata': {key: value}, 'deleted': False})
get_all_NoDeletedFilter(db, key, value) ==
    {i \in 1..Len(db) : <<key, value>> \in db[i].metadata}

get_all(db, key, value) ==
    {i \in 1..Len(db) : ~db[i].deleted /\ <<key, value>> \in db[i].metadata}

is_instance_blessed(db, id) == MdHas(instance_metadata_get(db, id), "blessed_from")

is_instance_launched(db, id) == MdHas(instance_metadata_get(db, id), "launched_from")

list_launched_instances(db, id) == get_all(db, "launched_from", ToStr(id))

list_blessed_instances(db, id) == get_all(db, "blessed_from", ToStr(id))

(***************************************************************************)
(* _next_clone_num: the number read from the metadata, and the metadata    *)
(* written back.                                                           *)
(***************************************************************************)
clone_num_NoIncrement(md) ==
    IF MdHas(md, "last_clone_num") THEN ParseInt(MdGet(md, "last_clone_num")) ELSE 0

clone_num(md) ==
    (IF MdHas(md, "last_clone_num") THEN ParseInt(MdGet(md, "last_clone_num")) ELSE -1) + 1

clone_metadata(md) == MdPut(md, "last_clone_num", ToStr(clone_num(md)))

(***************************************************************************)
(* _copy_instance: the record handed to instance_create.                   *)
(***************************************************************************)
copy_instance_KeepMetadata(ref, instance_id, new_suffix, launch) ==
    [vm_state |-> BUILDING,
     deleted |-> FALSE,
     host |-> NoHost,
     display_name |-> ref.display_name \o <<"-">> \o new_suffix,
     metadata |-> MdPut(ref.metadata,
                        IF launch THEN "launched_from" ELSE "blessed_from",
                        ToStr(instance_id))]

copy_instance_SourceState(ref, instance_id, new_suffix, launch) ==
    [vm_state |-> ref.vm_state,
     deleted |-> FALSE,
     host |-> NoHost,
     display_name |-> ref.display_name \o <<"-">> \o new_suffix,
     metadata |-> IF launch THEN {<<"launched_from", ToStr(instance_id)>>}
                  ELSE {<<"blessed_from", ToStr(instance_id)>>}]

copy_instance_LaunchFlagIgnored(ref, instance_id, new_suffix, launch) ==
    [vm_state |-> BUILDING,
     deleted |-> FALSE,
     host |-> NoHost,
     display_name |-> ref.display_name \o <<"-">> \o new_suffix,
     metadata |-> {<<"blessed_from", ToStr(instance_id)>>}]

copy_instance(ref, instance_id, new_suffix, launch) ==
    [vm_state |-> BUILDING,
     deleted |-> FALSE,
     host |-> NoHost,
     display_name |-> ref.display_name \o <<"-">> \o new_suffix,
     metadata |-> IF launch THEN {<<"launched_from", ToStr(instance_id)>>}
                  ELSE {<<"blessed_from", ToStr(instance_id)>>}]

(***************************************************************************)
(* Messages.  queue_get_for(topic, host) is the host-scoped queue.         *)
(***************************************************************************)
queue_get_for(topic, host) == <<topic, host>>

\* the queue taken from the instance's recorded host alone
gridcentric_queue_RecordedHostOnly(db, instance_id, host) ==
    LET h == instance_get(db, instance_id).host
    IN  IF h = NoHost THEN <<gridcentric_topic>>
        ELSE queue_get_for(gridcentric_topic, h)

\* _cast_gridcentric_message / _call_gridcentric_message: the queue
gridcentric_queue(db, instance_id, host) ==
    LET h == IF host # NoHost THEN host ELSE instance_get(db, instance_id).host
    IN  IF h = NoHost THEN <<gridcentric_topic>>
        ELSE queue_get_for(gridcentric_topic, h)

Msg_AlwaysCast(kind, queue, method, instance_id) ==
    [kind |-> "cast", queue |-> queue, method |-> method, instance_id |-> instance_id]

Msg(kind, queue, method, instance_id) ==
    [kind |-> kind, queue |-> queue, method |-> method, instance_id |-> instance_id]

(***************************************************************************)
(* The params dictionary of launch_instance.  A key that is absent from    *)
(* the dictionary is 0 (num_instances) or the empty string (key_name).     *)
(* The key-pair table holds no key pair: every key_name a caller gives     *)
(* names a key pair that does not exist.                                   *)
(***************************************************************************)
NoParams == [num_instances |-> 0, key_name |-> <<>>]

KeyPairs == {}

KeyNames == {<<"k">>}

LaunchParams ==
    {NoParams}
    \cup {[NoParams EXCEPT !.num_instances = n] : n \in 1..MaxNumInstances}
    \cup {[NoParams EXCEPT !.key_name = k] : k \in KeyNames}

\* launch_instance: the message cast to the scheduler
LaunchMsg(instance_id, params) ==
    [kind |-> "cast", queue |-> <<scheduler_topic>>, method |-> "launch_instance",
     instance_id |-> instance_id, topic |-> gridcentric_topic, params |-> params]

(***************************************************************************)
(* The validation of each call, in the order of the code.                  *)
(***************************************************************************)
bless_check_NoBlessedCheck(is_blessed, is_launched, vm_state) ==
    IF is_launched THEN "AlreadyLaunched"
    ELSE IF vm_state # ACTIVE THEN "NotActive"
    ELSE "OK"

bless_check_NoLaunchedCheck(is_blessed, is_launched, vm_state) ==
    IF is_blessed THEN "AlreadyBlessed"
    ELSE IF vm_state # ACTIVE THEN "NotActive"
    ELSE "OK"

bless_check_NoActiveCheck(is_blessed, is_launched, vm_state) ==
    IF is_blessed THEN "AlreadyBlessed"
    ELSE IF is_launched THEN "AlreadyLaunched"
    ELSE "OK"

bless_check_ActiveFirst(is_blessed, is_launched, vm_state) ==
    IF vm_state # ACTIVE THEN "NotActive"
    ELSE IF is_blessed THEN "AlreadyBlessed"
    ELSE IF is_launched THEN "AlreadyLaunched"
    ELSE "OK"

bless_check(is_blessed, is_launched, vm_state) ==
    IF is_blessed THEN "AlreadyBlessed"
    ELSE IF is_launched THEN "AlreadyLaunched"
    ELSE IF vm_state # ACTIVE THEN "NotActive"
    ELSE "OK"

discard_check_NoBlessedCheck(is_blessed, launched) ==
    IF Cardinality(launched) > 0 THEN "HasDependents"
    ELSE "OK"

discard_check(is_blessed, launched) ==
    IF ~is_blessed THEN "NotBlessed"
    ELSE IF Cardinality(launched) > 0 THEN "HasDependents"
    ELSE "OK"

\* _check_quota: quota.allowed_instances(context, 1, type) and the metadata quota
check_quota(allowed, md_quota_ok) ==
    IF allowed < 1 THEN "QuotaError"
    ELSE IF ~md_quota_ok THEN "QuotaError"
    ELSE "OK"

launch_check(quota, is_blessed) ==
    IF quota # "OK" THEN quota
    ELSE IF ~is_blessed THEN "NotBlessed"
    ELSE "OK"

(***************************************************************************)
(* last: what the most recent step did when it was an API call that        *)
(* returned or raised: the call, its outcome, the target's record and the  *)
(* size of the registry before the call, the messages the call sent, the   *)
(* clone number it obtained.  Any other step sets it to NoCall.            *)
(***************************************************************************)
NoCall ==
    [op |-> "none", id |-> 0, outcome |-> "none", pre |-> NoRecord,
     nbefore |-> 0, sent |-> <<>>, clonenum |-> -1]

Result(op, id, outcome, db, msgs, num) ==
    [op |-> op, id |-> id, outcome |-> outcome,
     pre |-> IF id \in 1..Len(db) THEN db[id] ELSE NoRecord,
     nbefore |-> Len(db), sent |-> msgs, clonenum |-> num]

(***************************************************************************)
(* procs: the requests in flight under SpecConc.  A request keeps what it  *)
(* read in its locals (ref, cref, md, is_blessed, clonenum, new_id); when  *)
(* it has returned or raised, its slot holds the call, its outcome, the    *)
(* clone number it obtained and the size of the registry at that moment    *)
(* (nafter) until the slot starts its next request.                        *)
(***************************************************************************)
IdleProc ==
    [pc |-> "idle", op |-> "none", id |-> 0, outcome |-> "none",
     ref |-> NoRecord, cref |-> NoRecord, md |-> {}, is_blessed |-> FALSE,
     clonenum |-> -1, new_id |-> 0, pre |-> NoRecord, nbefore |-> 0,
     nafter |-> 0, count |-> 0]

Procs == 1..MaxProcs

(***************************************************************************)
(* vms_launches: the calls of VmsConnection.launch, oldest first; the last *)
(* one may be running.  A call keeps the hooks it has run so far (calls:   *)
(* hook and whether it returned) and what the hooks left behind.           *)
(***************************************************************************)
ConnClasses == {"VmsConnection", "LibvirtConnection"}

\* has_lvm_info: len(lvm_info) > 0; pre_conn, hairpin: the libvirt driver
\* pre_launch and post_launch of LibvirtConnection have worked on
NewLaunch(cls, migration, nvifs, has_lvm_info) ==
    [cls |-> cls, migration |-> migration, nvifs |-> nvifs,
     has_lvm_info |-> has_lvm_info, pc |-> "pre_launch",
     calls |-> <<>>, vms_options |-> {}, pre_conn |-> "none", hairpin |-> "none"]

\* launch: an exception of a hook is not caught
next_hook_Swallow(hook, ok) ==
    CASE hook = "pre_launch" -> "vmsapi_launch"
      [] hook = "vmsapi_launch" -> "post_launch"
      [] hook = "post_launch" -> "returned"

\* launch: the statement that follows a hook; ok: the hook returned
next_hook_PostLaunchFirst(hook, ok) ==
    IF ~ok THEN "raised"
    ELSE CASE hook = "pre_launch" -> "post_launch"
           [] hook = "post_launch" -> "vmsapi_launch"
           [] hook = "vmsapi_launch" -> "returned"

next_hook(hook, ok) ==
    IF ~ok THEN "raised"
    ELSE CASE hook = "pre_launch" -> "vmsapi_launch"
           [] hook = "vmsapi_launch" -> "post_launch"
           [] hook = "post_launch" -> "returned"

\* launch: vms_options
vms_options(nvifs) ==
    {"memory.policy"} \cup (IF nvifs > 0 THEN {"xen_mac_addr"} ELSE {})

\* LibvirtConnection.pre_launch: libvirt_conn_type
pre_launch_conn_type(migration, has_lvm_info) ==
    IF migration /\ has_lvm_info THEN "migration" ELSE "launch"

\* LibvirtConnection.post_launch: libvirt_conn_type
post_launch_conn_type(migration) == IF migration THEN "migration" ELSE "launch"

(***************************************************************************)
(* files: the image cache directory, path -> file (NoFile: no such path).  *)
(* The content of a file is the chunks written to it, each marked with the *)
(* download that wrote it.  fetchers: the launches that are in the         *)
(* download loop of pre_launch for the image whose file is Target.         *)
(***************************************************************************)
Target == <<"target", 0>>

TempPaths == {<<"tmp", n>> : n \in 1..MaxFetchers}

Paths == {Target} \cup TempPaths

NoPath == <<"none", 0>>

NoFile == [content |-> <<>>, owner |-> "none", mode |-> "none"]

Fetchers == 1..MaxFetchers

\* error: the statement of the download that raised ("none": none did)
IdleFetcher ==
    [pc |-> "idle", migration |-> FALSE, temp_target |-> NoPath, error |-> "none"]

\* where a statement of the try block goes when it raises: the except clause
except_pc_NoUnlink == "raised"

except_pc == "unlink"

\* tempfile.mkstemp: a new empty file of the service's user, mode 0600
mkstemp_file == [content |-> <<>>, owner |-> "root", mode |-> "0600"]

\* the file image_service.download writes to
download_path_Target(temp_target, target) == target

download_path(temp_target, target) == temp_target

\* one more chunk of download f written to the file at path
write_chunk(fs, path, f) ==
    [fs EXCEPT ![path] =
        IF fs[path] = NoFile THEN [mkstemp_file EXCEPT !.content = <<f>>]
        ELSE [fs[path] EXCEPT !.content = Append(@, f)]]

\* if migration or not os.path.exists(target)
fetch_needed_OnlyAbsent(migration, target_exists) == ~target_exists

fetch_needed(migration, target_exists) == migration \/ ~target_exists

\* if not(skip_image_service) and CONF.cobalt_use_image_service
uses_image_service(skip_image_service, durable) == ~skip_image_service /\ durable

\* the file a download of version v of the image leaves at the target path
\* once it is written, chowned, chmoded and renamed
fetched_file(v) ==
    [content |-> [i \in 1..ImageChunks |-> v], owner |-> "openstack", mode |-> "0644"]

\* plast: the pre_launch call made by the most recent step
NoPreLaunch ==
    [op |-> "none", migration |-> FALSE, skip_image_service |-> FALSE,
     durable |-> FALSE, image_refs |-> <<>>, target_before |-> NoFile,
     outcome |-> "none", calls |-> <<>>, artifact_path |-> "None"]

\* os.rename(src, dst)
rename(fs, src, dst) == [fs EXCEPT ![dst] = fs[src], ![src] = NoFile]

(***************************************************************************)
(* The artifact store (self.image_service) and the local blessed files.    *)
(* store: image id -> image (NoImage: the store has no such image); the    *)
(* store also holds an image of another owner, which this service may not  *)
(* delete.  local_files: the blessed files that exist on local storage.    *)
(* images_created: how many images the store has created so far (an id is  *)
(* never given out twice).                                                 *)
(***************************************************************************)
ImageIds == 1..MaxImages

ForeignImage == 0

NoImage ==
    [file_name |-> <<>>, image_type |-> "none", live_image |-> FALSE,
     image_state |-> "none", data |-> FALSE, owner |-> "none"]

\* image_service.create: the image as _create_image registers it
created_image ==
    [file_name |-> <<>>, image_type |-> "none", live_image |-> FALSE,
     image_state |-> "creating", data |-> FALSE, owner |-> "self"]

foreign_image == [created_image EXCEPT !.owner = "other", !.image_state = "available"]

gc_file == <<"/", "t", ".", "g", "c">>

disk_file == <<"/", "t", ".", "0", ".", "d", "i", "s", "k">>

gc_file2 == <<"/", "u", ".", "g", "c">>

\* the lists a caller may pass as blessed_files
FileLists ==
    {<<>>, <<gc_file, disk_file>>, <<disk_file>>, <<gc_file, gc_file2>>}

\* the lists vmsapi.bless may hand back
BackendFileLists == FileLists \ {<<>>}

\* the lists a caller may pass as image_refs
RefLists ==
    {<<>>} \cup {<<a>> : a \in {ForeignImage} \cup ImageIds}
           \cup {<<a, a + 1>> : a \in ({ForeignImage} \cup ImageIds) \ {MaxImages}}

\* filename.endswith(suffix)
endswith(filename, suffix) ==
    /\ Len(filename) >= Len(suffix)
    /\ SubSeq(filename, Len(filename) - Len(suffix) + 1, Len(filename)) = suffix

dot_gc == <<".", "g", "c">>

\* _get_glance_displayname_and_type: image_type
glance_image_type(filename) ==
    IF endswith(filename, dot_gc) THEN "Live-Image" ELSE "Image"

SeqToSet(q) == {q[i] : i \in 1..Len(q)}

\* one call to the store or to the backend: what was called, on which image
\* or file, and how it answered
StoreCall(method, image, file, response) ==
    [method |-> method, image |-> image, file |-> file, response |-> response]

\* vlast: the call of VmsConnection made by the most recent step.  removed:
\* the local files, or the images of the store, that were there before the
\* call and are not there after it; again: the call before it was the same
\* call with the same arguments, and it returned
NoVmsCall ==
    [op |-> "none", durable |-> FALSE, files |-> <<>>, refs |-> <<>>,
     outcome |-> "none", returned_files |-> <<>>, returned_refs |-> <<>>,
     calls |-> <<>>, removed |-> {}, again |-> FALSE]

\* os.path.basename(filename)
basename(filename) ==
    LET slashes == {i \in 1..Len(filename) : filename[i] = "/"}
        last_slash == CHOOSE i \in slashes : \A j \in slashes : j <= i
    IN  IF slashes = {} THEN filename
        ELSE SubSeq(filename, last_slash + 1, Len(filename))

\* _upload_files: blessed_image_refs.append(image_id)
append_ref_Front(refs, image_id) == <<image_id>> \o refs

append_ref(refs, image_id) == Append(refs, image_id)

(***************************************************************************)
(* _upload_files.  The store calls of the upload are numbered in the order *)
(* they are made (create, upload and update of the first file, of the      *)
(* second, ..., then the update of the descriptor); fail_at is the number  *)
(* of the call that raises, 0 when none does.  up is what the upload has   *)
(* done so far.                                                            *)
(***************************************************************************)
NoDescriptor == ForeignImage - 1

NotUploaded(st, created, local) ==
    [store |-> st, created |-> created, local |-> local, refs |-> <<>>,
     calls |-> <<>>, descriptor_ref |-> NoDescriptor, outcome |-> "OK"]

\* _friendly_upload of the i-th file; image_service.upload reads the file and
\* raises when it is not there
friendly_upload(up, filename, i, fail_at) ==
    LET first == 3 * (i - 1)
        image_id == up.created + 1
        st1 == [up.store EXCEPT ![image_id] = created_image]
        st2 == [st1 EXCEPT ![image_id].data = TRUE]
        st3 == [st2 EXCEPT ![image_id].image_type = glance_image_type(filename),
                           ![image_id].file_name = basename(filename)]
        c1(r) == StoreCall("create", IF r = "ok" THEN image_id ELSE NoDescriptor,
                           filename, r)
        c2(r) == StoreCall("upload", image_id, filename, r)
        c3(r) == StoreCall("update", image_id, filename, r)
    IN  IF fail_at = first + 1
        THEN [up EXCEPT !.calls = up.calls \o <<c1("error")>>, !.outcome = "StoreError"]
        ELSE IF fail_at = first + 2 \/ filename \notin up.local
        THEN [up EXCEPT !.store = st1, !.created = image_id,
                        !.calls = up.calls \o <<c1("ok"), c2("error")>>,
                        !.outcome = "StoreError"]
        ELSE IF fail_at = first + 3
        THEN [up EXCEPT !.store = st2, !.created = image_id,
                        !.calls = up.calls \o <<c1("ok"), c2("ok"), c3("error")>>,
                        !.outcome = "StoreError"]
        ELSE [up EXCEPT !.store = st3, !.created = image_id,
                        !.calls = up.calls \o <<c1("ok"), c2("ok"), c3("ok")>>,
                        !.refs = append_ref(up.refs, image_id),
                        !.descriptor_ref = IF endswith(filename, dot_gc) THEN image_id
                                           ELSE up.descriptor_ref]

\* the loop over blessed_files, from the i-th file on
RECURSIVE upload_loop(_, _, _, _)
upload_loop(up, blessed_files, i, fail_at) ==
    IF i > Len(blessed_files) \/ up.outcome # "OK" THEN up
    ELSE upload_loop(friendly_upload(up, blessed_files[i], i, fail_at),
                     blessed_files, i + 1, fail_at)

\* after the loop: show and update of the descriptor image; show(None)
\* raises when no file ended with .gc
mark_descriptor(up, n, fail_at) ==
    IF up.outcome # "OK" THEN up
    ELSE IF up.descriptor_ref = NoDescriptor
    THEN [up EXCEPT !.calls = Append(up.calls, StoreCall("show", NoDescriptor, <<>>, "not_found")),
                    !.outcome = "ImageNotFound"]
    ELSE IF fail_at = 3 * n + 1
    THEN [up EXCEPT !.calls = Append(up.calls,
                                     StoreCall("update", up.descriptor_ref, <<>>, "error")),
                    !.outcome = "StoreError"]
    ELSE [up EXCEPT !.store = [up.store EXCEPT ![up.descriptor_ref].live_image = TRUE,
                                               ![up.descriptor_ref].image_state = "available"],
                    !.calls = Append(up.calls,
                                     StoreCall("update", up.descriptor_ref, <<>>, "ok"))]

upload_files(st, created, local, blessed_files, fail_at) ==
    mark_descriptor(upload_loop(NotUploaded(st, created, local), blessed_files, 1, fail_at),
                    Len(blessed_files), fail_at)

(***************************************************************************)
(* _delete_images.  fail_at is the number of the delete that the store     *)
(* answers with an error other than not found and forbidden, 0 for none.   *)
(***************************************************************************)
\* how the store answers image_service.delete(context, image_ref)
delete_response(st, image_ref) ==
    IF st[image_ref] = NoImage THEN "not_found"
    ELSE IF st[image_ref].owner # "self" THEN "forbidden"
    ELSE "ok"

\* the store after that delete
delete_image(st, image_ref) ==
    IF delete_response(st, image_ref) = "ok" THEN [st EXCEPT ![image_ref] = NoImage]
    ELSE st

\* except (exception.ImageNotFound, HTTPForbidden)
ignored_response_OnlyNotFound(response) == response = "not_found"

ignored_response_None(response) == FALSE

ignored_response(response) == response \in {"not_found", "forbidden"}

NotDeleted(st) == [store |-> st, calls |-> <<>>, outcome |-> "OK"]

RECURSIVE delete_loop(_, _, _, _)
delete_loop(del, image_refs, i, fail_at) ==
    IF i > Len(image_refs) \/ del.outcome # "OK" THEN del
    ELSE LET ref == image_refs[i]
             response == IF fail_at = i THEN "error" ELSE delete_response(del.store, ref)
             call == StoreCall("delete", ref, <<>>, response)
         IN  delete_loop(
                 [store |-> IF response = "ok" THEN delete_image(del.store, ref)
                            ELSE del.store,
                  calls |-> Append(del.calls, call),
                  outcome |-> IF response = "ok" \/ ignored_response(response) THEN "OK"
                              ELSE IF response = "not_found" THEN "ImageNotFound"
                              ELSE IF response = "forbidden" THEN "HTTPForbidden"
                              ELSE "StoreError"],
                 image_refs, i + 1, fail_at)

delete_images(st, image_refs, fail_at) == delete_loop(NotDeleted(st), image_refs, 1, fail_at)

(***************************************************************************)
(* bless_cleanup: the loop over blessed_files.                             *)
(***************************************************************************)
\* if os.path.exists(blessed_file)
unlink_guard_None(local, blessed_file) == TRUE

unlink_guard(local, blessed_file) == blessed_file \in local

RECURSIVE cleanup_loop(_, _, _)
cleanup_loop(cl, blessed_files, i) ==
    IF i > Len(blessed_files) \/ cl.outcome # "OK" THEN cl
    ELSE LET f == blessed_files[i]
         IN  cleanup_loop(
                 IF ~unlink_guard(cl.local, f) THEN cl
                 ELSE IF f \in cl.local
                 THEN [cl EXCEPT !.local = cl.local \ {f}]
                 ELSE [cl EXCEPT !.outcome = "OSError"],
                 blessed_files, i + 1)

\* discard: the images are deleted when the backend call has returned and
\* CONF.cobalt_use_image_service is set
discard_deletes_Always(backend_ok, durable) == TRUE

discard_deletes_Never(backend_ok, durable) == FALSE

discard_deletes(backend_ok, durable) == backend_ok /\ durable

(***************************************************************************)
(* trip: how far the sequence bless, post_bless, bless_cleanup, discard of *)
(* one template has come, each call made with what the call before it      *)
(* returned and with no other call in between.                             *)
(***************************************************************************)
NoTrip == [stage |-> "none", files |-> <<>>, refs |-> <<>>]

advance(tr, call) ==
    IF call.outcome # "OK" THEN NoTrip
    ELSE IF call.op = "bless"
    THEN [stage |-> "blessed", files |-> call.returned_files, refs |-> <<>>]
    ELSE IF call.op = "post_bless" /\ tr.stage = "blessed" /\ call.files = tr.files
              /\ call.durable
    THEN [tr EXCEPT !.stage = "uploaded", !.refs = call.returned_refs]
    ELSE IF call.op = "bless_cleanup" /\ tr.stage = "uploaded" /\ call.files = tr.files
              /\ call.durable
    THEN [tr EXCEPT !.stage = "cleaned"]
    ELSE IF call.op = "discard" /\ tr.stage = "cleaned" /\ call.refs = tr.refs
              /\ call.durable
    THEN [tr EXCEPT !.stage = "discarded"]
    ELSE NoTrip

(***************************************************************************)
(* vg_dir: the directory /dev/<images_volume_group>: whether it exists,    *)
(* and what each name in it is.  clean_conf: CONF.libvirt.images_type and  *)
(* CONF.cobalt_clean_unused_symlinks.  clast: the call of periodic_clean   *)
(* made by the most recent step.                                           *)
(***************************************************************************)
EntryNames == 1..MaxEntries

\* absent: no such name; active: a link whose target exists; dangling: a
\* link whose target does not; file: not a link; no_lstat: a name that
\* os.lstat fails on
EntryKinds == {"absent", "active", "dangling", "file", "no_lstat"}

\* os.listdir(vg_path)
listdir(dir) == {n \in EntryNames : dir.entries[n] # "absent"}

\* os.lstat(path) returns
lstat_ok(kind) == kind # "no_lstat"

\* os.stat(path) returns: the name resolves
stat_ok(kind) == kind \in {"active", "file"}

NoCleanCall ==
    [op |-> "none", outcome |-> "none", before |-> [n \in EntryNames |-> "absent"],
     existed |-> TRUE, conf |-> [images_type |-> "none", clean_unused_symlinks |-> FALSE],
     logs |-> [n \in EntryNames |-> "none"], unlink_fails |-> {}]

\* the body of the loop of _clean_lvm_symlinks for one name: what is logged
\* for it (unlink_raises: os.unlink fails on it)
clean_entry(kind, clean_unused_symlinks, unlink_raises) ==
    IF ~lstat_ok(kind) THEN "Failed to lstat path"
    ELSE IF stat_ok(kind) THEN "Link is still active"
    ELSE IF ~clean_unused_symlinks THEN "Broken link found but not removing"
    ELSE IF unlink_raises THEN "Failed to lstat path"
    ELSE "Unlinking broken link"

\* the name is gone after the loop body
unlinked(kind, clean_unused_symlinks, unlink_raises) ==
    /\ lstat_ok(kind) /\ ~stat_ok(kind)
    /\ clean_unused_symlinks /\ ~unlink_raises

(***************************************************************************)
(* tmp_files: the files that export_instance and import_instance have made *)
(* and that are still there: archives (tempfile.mkstemp) and artifacts in  *)
(* the shared directory.  xlast: the export or import made by the most     *)
(* recent step: its arguments, the statements it ran in order (steps), the *)
(* archive it made and the artifacts it downloaded or was handed.          *)
(***************************************************************************)
ArchivePaths == {<<"archive", n>> : n \in 1..MaxArchives}

NoArchive == <<"archive", 0>>

ExportImages == {1, 2}

\* the artifact of image id in the shared directory
shared_path(id) == <<"shared", id>>

\* an image ref is an id of the store, or a path that starts with
\* config.SHARED
StoreRef(id) == [shared |-> FALSE, id |-> id]

SharedRef(id) == [shared |-> TRUE, id |-> id]

ExportRefLists ==
    {<<>>, <<StoreRef(1)>>, <<StoreRef(1), StoreRef(2)>>, <<SharedRef(1), StoreRef(2)>>}

NoTransfer ==
    [op |-> "none", image_refs |-> <<>>, durable |-> FALSE, outcome |-> "none",
     steps |-> <<>>, archive |-> NoArchive, artifacts |-> {}, before |-> {}]

\* tempfile.mkstemp(): a name that is not in use
mkstemp_names(fs) == ArchivePaths \ fs

\* the loop of pre_export from the i-th ref on; fail_at: the ref whose
\* download raises (0: none)
RECURSIVE pre_export_loop(_, _, _, _)
pre_export_loop(ex, image_refs, i, fail_at) ==
    IF i > Len(image_refs) \/ ex.outcome # "OK" THEN ex
    ELSE LET ref == image_refs[i]
         IN  pre_export_loop(
                 IF ref.shared THEN ex
                 ELSE IF fail_at = i
                 THEN [ex EXCEPT !.steps = ex.steps \o <<"show", "download">>,
                                 !.outcome = "StoreError"]
                 ELSE [ex EXCEPT !.steps = ex.steps \o <<"show", "download">>,
                                 !.fs = ex.fs \cup {shared_path(ref.id)},
                                 !.artifacts = ex.artifacts \cup {shared_path(ref.id)}],
                 image_refs, i + 1, fail_at)

\* export_instance from the return of pre_export on; raises: the statement
\* that raises ("none": none does)
export_rest(ex, archive, raises) ==
    LET made == [ex EXCEPT !.steps = ex.steps \o <<"mkstemp", "vmsapi.export">>,
                           !.fs = ex.fs \cup {archive}]
        unlinked_artifacts == [made EXCEPT !.steps = made.steps \o <<"unlink artifacts",
                                                                     "upload">>,
                                          !.fs = made.fs \ made.artifacts]
    IN  IF raises = "vmsapi.export" THEN [made EXCEPT !.outcome = "BackendError"]
        ELSE IF raises = "upload" THEN [unlinked_artifacts EXCEPT !.outcome = "StoreError"]
        ELSE [unlinked_artifacts EXCEPT !.steps = unlinked_artifacts.steps
                                                    \o <<"unlink archive">>,
                                        !.fs = unlinked_artifacts.fs \ {archive}]

\* import_instance once pre_import has made the archive; artifacts: the
\* files vmsapi.import_ writes
import_rest(fs, archive, artifacts, durable, raises) ==
    LET st0 == [fs |-> fs \cup {archive}, steps |-> <<"mkstemp", "download">>,
                outcome |-> "OK"]
    IN  IF raises = "download"
        THEN [st0 EXCEPT !.steps = st0.steps \o <<"unlink archive">>,
                         !.fs = st0.fs \ {archive}, !.outcome = "StoreError"]
        ELSE IF raises = "download, unlink"
        THEN [st0 EXCEPT !.steps = st0.steps \o <<"unlink archive">>,
                         !.outcome = "StoreError"]
        ELSE IF raises = "vmsapi.import_"
        THEN [st0 EXCEPT !.steps = st0.steps \o <<"vmsapi.import_">>,
                         !.outcome = "BackendError"]
        ELSE IF ~durable
        THEN [st0 EXCEPT !.steps = st0.steps \o <<"vmsapi.import_", "unlink archive">>,
                         !.fs = (st0.fs \cup artifacts) \ {archive}]
        ELSE IF raises = "upload"
        THEN [st0 EXCEPT !.steps = st0.steps \o <<"vmsapi.import_", "unlink archive",
                                                   "upload">>,
                         !.fs = (st0.fs \cup artifacts) \ {archive},
                         !.outcome = "StoreError"]
        ELSE [st0 EXCEPT !.steps = st0.steps \o <<"vmsapi.import_", "unlink archive",
                                                   "upload", "unlink artifacts">>,
                         !.fs = st0.fs \ ({archive} \cup artifacts)]

Init ==
    /\ instances = <<>>
    /\ sent = {}
    /\ last = NoCall
    /\ procs = [p \in Procs |-> IdleProc]
    /\ vms_launches = <<>>
    /\ files = [path \in Paths |-> NoFile]
    /\ fetchers = [f \in Fetchers |-> IdleFetcher]
    /\ use_image_service = FALSE
    /\ store = [id \in {ForeignImage} \cup ImageIds |->
                   IF id = ForeignImage THEN foreign_image ELSE NoImage]
    /\ local_files = {}
    /\ images_created = 0
    /\ vlast = NoVmsCall
    /\ trip = NoTrip
    /\ connections = <<>>
    /\ vg_dir = [exists |-> TRUE, entries |-> [n \in EntryNames |-> "absent"]]
    /\ clean_conf = [images_type |-> "default", clean_unused_symlinks |-> FALSE]
    /\ clast = NoCleanCall
    /\ tmp_files = {}
    /\ image_version = 1
    /\ plast = NoPreLaunch
    /\ xlast = NoTransfer

(***************************************************************************)
(* The registry's other users: the platform creates instances, the worker  *)
(* and the scheduler move them through their states, instances are         *)
(* terminated (and a discarded template is deleted by the worker).         *)
(***************************************************************************)
CreateInstance(vm_state, host, name) ==
    /\ Len(instances) < MaxInstances
    /\ instances' = instance_create(instances,
                        [vm_state |-> vm_state, deleted |-> FALSE, host |-> host,
                         display_name |-> name, metadata |-> {}])
    /\ last' = NoCall
    /\ UNCHANGED <<sent, procs, vmsVars>>

SetVmState(i, s) ==
    /\ instance_exists(instances, i)
    /\ instances[i].vm_state # s
    /\ instances' = [instances EXCEPT ![i].vm_state = s]
    /\ last' = NoCall
    /\ UNCHANGED <<sent, procs, vmsVars>>

DeleteInstance(i) ==
    /\ instance_exists(instances, i)
    /\ instances' = [instances EXCEPT ![i].deleted = TRUE, ![i].vm_state = DELETED]
    /\ last' = NoCall
    /\ UNCHANGED <<sent, procs, vmsVars>>

Environment ==
    \/ \E s \in {ACTIVE, BUILDING}, h \in Hosts, n \in DisplayNames : CreateInstance(s, h, n)
    \/ \E i \in Ids, s \in VmStates : SetVmState(i, s)
    \/ \E i \in Ids : DeleteInstance(i)

(***************************************************************************)
(* The API calls, each as one atomic step.                                 *)
(***************************************************************************)
\* bless_instance when rpc.call raises: the exception leaves through the two
\* lines that wrote the registry, which has no except clause around them
bless_call_failed_RolledBack(db_written, db_before) == db_before

bless_call_failed(db_written, db_before) == db_written

\* bless_instance(context, instance_id); call_ok: rpc.call returned,
\* worker_state: the vm_state the worker left on the new record
bless_instance(instance_id) ==
    IF ~instance_exists(instances, instance_id)
    THEN /\ last' = Result("bless", instance_id, "InstanceNotFound", instances, <<>>, -1)
         /\ UNCHANGED <<instances, sent, procs, vmsVars>>
    ELSE
    LET instance_ref == instance_get(instances, instance_id)
        check == bless_check(is_instance_blessed(instances, instance_id),
                             is_instance_launched(instances, instance_id),
                             instance_ref.vm_state)
        md == instance_metadata_get(instances, instance_id)
        clonenum == clone_num(md)
        db1 == instance_metadata_update(instances, instance_id, clone_metadata(md))
        new_rec == copy_instance(instance_get(db1, instance_id), instance_id,
                                 ToStr(clonenum), FALSE)
        db2 == instance_create(db1, new_rec)
        new_id == Len(db2)
        msg == Msg("call", gridcentric_queue(db2, new_id, instance_ref.host),
                   "bless_instance", new_id)
    IN  IF check # "OK"
        THEN /\ last' = Result("bless", instance_id, check, instances, <<>>, -1)
             /\ UNCHANGED <<instances, sent, procs, vmsVars>>
        ELSE /\ Len(instances) < MaxInstances
             /\ sent' = sent \cup {msg}
             /\ \E call_ok \in BOOLEAN, worker_state \in {BUILDING, ACTIVE} :
                    IF call_ok
                    THEN /\ instances' = [db2 EXCEPT ![new_id].vm_state = worker_state]
                         /\ last' = Result("bless", instance_id, "OK", instances,
                                           <<msg>>, clonenum)
                    ELSE /\ instances' = bless_call_failed(db2, instances)
                         /\ last' = Result("bless", instance_id, "RpcError", instances,
                                           <<msg>>, clonenum)
             /\ UNCHANGED <<procs, vmsVars>>

\* discard_instance that casts before it looks at the launched instances
discard_instance_CastFirst(instance_id) ==
    IF ~instance_exists(instances, instance_id)
    THEN /\ last' = Result("discard", instance_id, "InstanceNotFound", instances, <<>>, -1)
         /\ UNCHANGED <<instances, sent, procs, vmsVars>>
    ELSE
    LET check == discard_check(is_instance_blessed(instances, instance_id),
                               list_launched_instances(instances, instance_id))
        msg == Msg("cast", gridcentric_queue(instances, instance_id, NoHost),
                   "discard_instance", instance_id)
    IN  IF check = "NotBlessed"
        THEN /\ last' = Result("discard", instance_id, check, instances, <<>>, -1)
             /\ UNCHANGED <<instances, sent, procs, vmsVars>>
        ELSE /\ sent' = sent \cup {msg}
             /\ last' = Result("discard", instance_id, check, instances, <<msg>>, -1)
             /\ UNCHANGED <<instances, procs, vmsVars>>

\* discard_instance(context, instance_id)
discard_instance(instance_id) ==
    IF ~instance_exists(instances, instance_id)
    THEN /\ last' = Result("discard", instance_id, "InstanceNotFound", instances, <<>>, -1)
         /\ UNCHANGED <<instances, sent, procs, vmsVars>>
    ELSE
    LET check == discard_check(is_instance_blessed(instances, instance_id),
                               list_launched_instances(instances, instance_id))
        msg == Msg("cast", gridcentric_queue(instances, instance_id, NoHost),
                   "discard_instance", instance_id)
    IN  IF check # "OK"
        THEN /\ last' = Result("discard", instance_id, check, instances, <<>>, -1)
             /\ UNCHANGED <<instances, sent, procs, vmsVars>>
        ELSE /\ sent' = sent \cup {msg}
             /\ last' = Result("discard", instance_id, "OK", instances, <<msg>>, -1)
             /\ UNCHANGED <<instances, procs, vmsVars>>

\* launch_instance(context, instance_id, params); allowed: what
\* quota.allowed_instances returns, md_quota_ok: the metadata quota check passes.
\* params: the caller's dictionary; it goes into the message to the scheduler
\* and is read nowhere else.
launch_instance(instance_id) ==
    IF ~instance_exists(instances, instance_id)
    THEN /\ last' = Result("launch", instance_id, "InstanceNotFound", instances, <<>>, -1)
         /\ UNCHANGED <<instances, sent, procs, vmsVars>>
    ELSE
    \E allowed \in 0..1 : \E md_quota_ok \in IF allowed < 1 THEN {TRUE} ELSE BOOLEAN :
    LET check == launch_check(check_quota(allowed, md_quota_ok),
                              is_instance_blessed(instances, instance_id))
        new_rec == copy_instance(instance_get(instances, instance_id), instance_id,
                                 <<"c", "l", "o", "n", "e">>, TRUE)
        db1 == instance_create(instances, new_rec)
        new_id == Len(db1)
    IN  IF check # "OK"
        THEN /\ last' = Result("launch", instance_id, check, instances, <<>>, -1)
             /\ UNCHANGED <<instances, sent, procs, vmsVars>>
        ELSE /\ Len(instances) < MaxInstances
             /\ instances' = db1
             /\ \E params \in LaunchParams :
                    LET msg == LaunchMsg(new_id, params)
                    IN  /\ sent' = sent \cup {msg}
                        /\ last' = Result("launch", instance_id, "OK", instances,
                                          <<msg>>, -1)
             /\ UNCHANGED <<procs, vmsVars>>

ApiCall ==
    \/ \E i \in Ids : bless_instance(i)
    \/ \E i \in Ids : discard_instance(i)
    \/ \E i \in Ids : launch_instance(i)

Next == Environment \/ ApiCall

Spec == Init /\ [][Next]_vars

(***************************************************************************)
(* SpecMsg: the callers of _cast_gridcentric_message and                   *)
(* _call_gridcentric_message (bless_instance, discard_instance,            *)
(* migrate_instance) over a registry whose records are placed on hosts.    *)
(***************************************************************************)
\* the scheduler or a worker places a record that has no host yet
SetHost(i, h) ==
    /\ instance_exists(instances, i)
    /\ instances[i].host = NoHost
    /\ instances' = [instances EXCEPT ![i].host = h]
    /\ last' = NoCall
    /\ UNCHANGED <<sent, procs, vmsVars>>

\* migrate_instance: the message, whose args carry dest as well
MigrateMsg(db, instance_id, dest) ==
    LET m == Msg("call", gridcentric_queue(db, instance_id, NoHost),
                 "migrate_instance", instance_id)
    IN  [kind |-> m.kind, queue |-> m.queue, method |-> m.method,
         instance_id |-> m.instance_id, dest |-> dest]

\* migrate_instance(context, instance_id, dest); call_ok: rpc.call returned
migrate_instance(instance_id, dest) ==
    IF ~instance_exists(instances, instance_id)
    THEN /\ last' = Result("migrate", instance_id, "InstanceNotFound", instances, <<>>, -1)
         /\ UNCHANGED <<instances, sent, procs, vmsVars>>
    ELSE LET msg == MigrateMsg(instances, instance_id, dest)
         IN  /\ sent' = sent \cup {msg}
             /\ \E call_ok \in BOOLEAN :
                    last' = Result("migrate", instance_id,
                                   IF call_ok THEN "OK" ELSE "RpcError",
                                   instances, <<msg>>, -1)
             /\ UNCHANGED <<instances, procs, vmsVars>>

\* the ids a caller may name while fewer than MaxMessages messages were sent
Callable == IF Cardinality(sent) < MaxMessages THEN Ids ELSE {}

NextMsg ==
    \/ \E s \in {ACTIVE, BUILDING}, h \in Hosts, n \in DisplayNames : CreateInstance(s, h, n)
    \/ \E i \in Ids, h \in Hosts : SetHost(i, h)
    \/ \E i \in Callable : bless_instance(i)
    \/ \E i \in Callable : discard_instance(i)
    \/ \E i \in Callable, dest \in Hosts : migrate_instance(i, dest)

SpecMsg == Init /\ [][NextMsg]_vars

(***************************************************************************)
(* SpecConc: the same calls, one registry access or message send per step. *)
(***************************************************************************)
FirstPc(op) ==
    CASE op = "bless" -> "b_get"
      [] op = "launch" -> "l_quota"
      [] op = "discard" -> "d_isblessed"

\* a caller issues a request
StartRequest(p, op, id) ==
    /\ procs[p].pc = "idle"
    /\ procs[p].count < MaxRequests
    /\ procs' = [procs EXCEPT ![p] =
                    [IdleProc EXCEPT !.pc = FirstPc(op), !.op = op, !.id = id,
                                     !.pre = IF id \in 1..Len(instances)
                                             THEN instances[id] ELSE NoRecord,
                                     !.nbefore = Len(instances),
                                     !.count = procs[p].count + 1]]
    /\ last' = NoCall
    /\ UNCHANGED <<instances, sent, vmsVars>>

\* the request of p goes on to its next step
Goto(p, pc, proc) ==
    /\ procs' = [procs EXCEPT ![p] = [proc EXCEPT !.pc = pc]]
    /\ last' = NoCall
    /\ UNCHANGED vmsVars

\* the request of p returns (outcome "OK") or raises; db is the registry it leaves
Finish(p, outcome, msgs, db) ==
    /\ procs' = [procs EXCEPT ![p] =
                    [IdleProc EXCEPT !.op = procs[p].op, !.id = procs[p].id,
                                     !.outcome = outcome,
                                     !.clonenum = procs[p].clonenum,
                                     !.nafter = Len(db),
                                     !.count = procs[p].count]]
    /\ last' = [op |-> procs[p].op, id |-> procs[p].id, outcome |-> outcome,
                pre |-> procs[p].pre, nbefore |-> procs[p].nbefore,
                sent |-> msgs, clonenum |-> procs[p].clonenum]
    /\ UNCHANGED vmsVars

\* bless_instance: instance_ref = self.db.instance_get(context, instance_id)
b_get(p) ==
    /\ procs[p].pc = "b_get"
    /\ IF ~instance_exists(instances, procs[p].id)
       THEN Finish(p, "InstanceNotFound", <<>>, instances)
       ELSE Goto(p, "b_isblessed",
                 [procs[p] EXCEPT !.ref = instance_get(instances, procs[p].id)])
    /\ UNCHANGED <<instances, sent>>

\* bless_instance: is_blessed = self._is_instance_blessed(context, instance_id)
b_isblessed(p) ==
    /\ procs[p].pc = "b_isblessed"
    /\ IF ~instance_exists(instances, procs[p].id)
       THEN Finish(p, "InstanceNotFound", <<>>, instances)
       ELSE Goto(p, "b_islaunched",
                 [procs[p] EXCEPT !.is_blessed =
                                      is_instance_blessed(instances, procs[p].id)])
    /\ UNCHANGED <<instances, sent>>

\* bless_instance: is_launched = self._is_instance_launched(...), and the checks
b_islaunched(p) ==
    /\ procs[p].pc = "b_islaunched"
    /\ IF ~instance_exists(instances, procs[p].id)
       THEN Finish(p, "InstanceNotFound", <<>>, instances)
       ELSE LET check == bless_check(procs[p].is_blessed,
                                     is_instance_launched(instances, procs[p].id),
                                     procs[p].ref.vm_state)
            IN  IF check # "OK" THEN Finish(p, check, <<>>, instances)
                ELSE Goto(p, "n_read", procs[p])
    /\ UNCHANGED <<instances, sent>>

\* _next_clone_num: metadata = instance_metadata_get(...); clone_num = int(...) + 1
n_read(p) ==
    /\ procs[p].pc = "n_read"
    /\ IF ~instance_exists(instances, procs[p].id)
       THEN Finish(p, "InstanceNotFound", <<>>, instances)
       ELSE LET md == instance_metadata_get(instances, procs[p].id)
            IN  Goto(p, "n_write",
                     [procs[p] EXCEPT !.md = md, !.clonenum = clone_num(md)])
    /\ UNCHANGED <<instances, sent>>

\* _next_clone_num: instance_metadata_update(context, instance_id, metadata, True)
n_write(p) ==
    /\ procs[p].pc = "n_write"
    /\ IF ~instance_exists(instances, procs[p].id)
       THEN /\ Finish(p, "InstanceNotFound", <<>>, instances)
            /\ UNCHANGED instances
       ELSE /\ instances' = instance_metadata_update(instances, procs[p].id,
                                                     clone_metadata(procs[p].md))
            /\ Goto(p, "c_get", [procs[p] EXCEPT !.md = {}])
    /\ UNCHANGED sent

\* _copy_instance: instance_ref = self.db.instance_get(context, instance_id)
c_get(p) ==
    /\ procs[p].pc = "c_get"
    /\ IF ~instance_exists(instances, procs[p].id)
       THEN Finish(p, "InstanceNotFound", <<>>, instances)
       ELSE Goto(p, "c_create",
                 [procs[p] EXCEPT !.cref = instance_get(instances, procs[p].id)])
    /\ UNCHANGED <<instances, sent>>

\* _copy_instance: new_instance_ref = self.db.instance_create(context, instance)
c_create(p) ==
    /\ procs[p].pc = "c_create"
    /\ Len(instances) < MaxInstances
    /\ LET launch == procs[p].op = "launch"
           suffix == IF launch THEN <<"c", "l", "o", "n", "e">>
                     ELSE ToStr(procs[p].clonenum)
       IN  /\ instances' = instance_create(instances,
                               copy_instance(procs[p].cref, procs[p].id, suffix, launch))
           /\ Goto(p, IF launch THEN "l_cast" ELSE "b_call",
                   [procs[p] EXCEPT !.cref = NoRecord,
                                    !.new_id = Len(instances) + 1])
    /\ UNCHANGED sent

\* bless_instance: self._call_gridcentric_message('bless_instance', ...)
b_call(p) ==
    /\ procs[p].pc = "b_call"
    /\ IF ~instance_exists(instances, procs[p].new_id) /\ procs[p].ref.host = NoHost
       THEN /\ Finish(p, "InstanceNotFound", <<>>, instances)
            /\ UNCHANGED <<instances, sent>>
       ELSE LET new_id == procs[p].new_id
                msg == Msg("call",
                           gridcentric_queue(instances, new_id, procs[p].ref.host),
                           "bless_instance", new_id)
            IN  /\ sent' = sent \cup {msg}
                /\ \E call_ok \in BOOLEAN, worker_state \in {BUILDING, ACTIVE} :
                      IF call_ok
                      THEN /\ instances' =
                                 IF instance_exists(instances, new_id)
                                 THEN [instances EXCEPT ![new_id].vm_state = worker_state]
                                 ELSE instances
                           /\ Goto(p, "b_ret", procs[p])
                      ELSE /\ Finish(p, "RpcError", <<msg>>, instances)
                           /\ UNCHANGED instances

\* bless_instance: return self.get(context, new_instance_ref['id'])
b_ret(p) ==
    /\ procs[p].pc = "b_ret"
    /\ LET msg == Msg("call",
                      IF procs[p].ref.host = NoHost THEN <<gridcentric_topic>>
                      ELSE queue_get_for(gridcentric_topic, procs[p].ref.host),
                      "bless_instance", procs[p].new_id)
       IN  IF ~instance_exists(instances, procs[p].new_id)
           THEN Finish(p, "InstanceNotFound", <<msg>>, instances)
           ELSE Finish(p, "OK", <<msg>>, instances)
    /\ UNCHANGED <<instances, sent>>

\* launch_instance: self._check_quota(context, instance_id)
l_quota(p) ==
    /\ procs[p].pc = "l_quota"
    /\ IF ~instance_exists(instances, procs[p].id)
       THEN Finish(p, "InstanceNotFound", <<>>, instances)
       ELSE \E allowed \in 0..1 : \E md_quota_ok \in IF allowed < 1 THEN {TRUE} ELSE BOOLEAN :
               LET q == check_quota(allowed, md_quota_ok)
               IN  IF q # "OK" THEN Finish(p, q, <<>>, instances)
                   ELSE Goto(p, "l_isblessed", procs[p])
    /\ UNCHANGED <<instances, sent>>

\* launch_instance: if not(self._is_instance_blessed(context, instance_id))
l_isblessed(p) ==
    /\ procs[p].pc = "l_isblessed"
    /\ IF ~instance_exists(instances, procs[p].id)
       THEN Finish(p, "InstanceNotFound", <<>>, instances)
       ELSE LET check == launch_check("OK", is_instance_blessed(instances, procs[p].id))
            IN  IF check # "OK" THEN Finish(p, check, <<>>, instances)
                ELSE Goto(p, "c_get", procs[p])
    /\ UNCHANGED <<instances, sent>>

\* launch_instance: rpc.cast(context, FLAGS.scheduler_topic, ...); the callers
\* of SpecConc leave params at its default, {}
l_cast(p) ==
    /\ procs[p].pc = "l_cast"
    /\ sent' = sent \cup {LaunchMsg(procs[p].new_id, NoParams)}
    /\ Goto(p, "l_ret", procs[p])
    /\ UNCHANGED instances

\* launch_instance: return self.get(context, new_instance_ref['id'])
l_ret(p) ==
    /\ procs[p].pc = "l_ret"
    /\ LET msg == LaunchMsg(procs[p].new_id, NoParams)
       IN  IF ~instance_exists(instances, procs[p].new_id)
           THEN Finish(p, "InstanceNotFound", <<msg>>, instances)
           ELSE Finish(p, "OK", <<msg>>, instances)
    /\ UNCHANGED <<instances, sent>>

\* discard_instance: if not self._is_instance_blessed(context, instance_id)
d_isblessed(p) ==
    /\ procs[p].pc = "d_isblessed"
    /\ IF ~instance_exists(instances, procs[p].id)
       THEN Finish(p, "InstanceNotFound", <<>>, instances)
       ELSE LET check == discard_check(is_instance_blessed(instances, procs[p].id), {})
            IN  IF check # "OK" THEN Finish(p, check, <<>>, instances)
                ELSE Goto(p, "d_list", [procs[p] EXCEPT !.is_blessed = TRUE])
    /\ UNCHANGED <<instances, sent>>

\* discard_instance: elif len(self.list_launched_instances(context, instance_id)) > 0
d_list(p) ==
    /\ procs[p].pc = "d_list"
    /\ LET check == discard_check(procs[p].is_blessed,
                                  list_launched_instances(instances, procs[p].id))
       IN  IF check # "OK" THEN Finish(p, check, <<>>, instances)
           ELSE Goto(p, "d_cast", procs[p])
    /\ UNCHANGED <<instances, sent>>

\* discard_instance: self._cast_gridcentric_message('discard_instance', ...)
d_cast(p) ==
    /\ procs[p].pc = "d_cast"
    /\ IF ~instance_exists(instances, procs[p].id)
       THEN /\ Finish(p, "InstanceNotFound", <<>>, instances)
            /\ UNCHANGED sent
       ELSE LET msg == Msg("cast", gridcentric_queue(instances, procs[p].id, NoHost),
                           "discard_instance", procs[p].id)
            IN  /\ sent' = sent \cup {msg}
                /\ Finish(p, "OK", <<msg>>, instances)
    /\ UNCHANGED instances

RequestStep(p) ==
    \/ \E op \in {"bless", "launch", "discard"}, i \in Ids : StartRequest(p, op, i)
    \/ b_get(p) \/ b_isblessed(p) \/ b_islaunched(p)
    \/ n_read(p) \/ n_write(p)
    \/ c_get(p) \/ c_create(p)
    \/ b_call(p) \/ b_ret(p)
    \/ l_quota(p) \/ l_isblessed(p) \/ l_cast(p) \/ l_ret(p)
    \/ d_isblessed(p) \/ d_list(p) \/ d_cast(p)

NextConc ==
    \/ \E h \in Hosts, n \in DisplayNames : CreateInstance(ACTIVE, h, n)
    \/ \E p \in Procs : RequestStep(p)

SpecConc == Init /\ [][NextConc]_vars

(***************************************************************************)
(* SpecSteps: one caller whose calls run step by step, as under SpecConc,  *)
(* with nobody else at the registry while a call is running.               *)
(***************************************************************************)
Caller == 1

CreateWhenIdle(host, name) ==
    /\ procs[Caller].pc = "idle"
    /\ CreateInstance(ACTIVE, host, name)

NextSteps ==
    \/ \E h \in Hosts, n \in DisplayNames : CreateWhenIdle(h, n)
    \/ RequestStep(Caller)

SpecSteps == Init /\ [][NextSteps]_vars

(***************************************************************************)
(* SpecLaunch: VmsConnection.launch.  A hook either returns or raises, and *)
(* an exception leaves launch at once.                                     *)
(***************************************************************************)
HookRan(hook, ok, cur) ==
    [cur EXCEPT !.calls = Append(@, <<hook, ok>>), !.pc = next_hook(hook, ok)]

AtHook(hook) ==
    /\ vms_launches # <<>>
    /\ vms_launches[Len(vms_launches)].pc = hook

\* launch(self, context, instance_name, new_instance_ref, network_info, ...);
\* migration: a migration_url is given, nvifs: len(network_info)
launch(cls, migration, nvifs, has_lvm_info) ==
    /\ Len(vms_launches) < MaxLaunches
    /\ vms_launches # <<>> =>
           vms_launches[Len(vms_launches)].pc \in {"returned", "raised"}
    /\ vms_launches' = Append(vms_launches,
                               NewLaunch(cls, migration, nvifs, has_lvm_info))
    /\ UNCHANGED notLaunch

\* new_name, path = self.pre_launch(...); the hook of VmsConnection only
\* returns the name, the hook of LibvirtConnection prepares the domain with
\* the libvirt driver it selects
pre_launch ==
    /\ AtHook("pre_launch")
    /\ LET n == Len(vms_launches)
           cur == vms_launches[n]
       IN  IF cur.cls = "VmsConnection"
           THEN vms_launches' = [vms_launches EXCEPT ![n] = HookRan("pre_launch", TRUE, cur)]
           ELSE \E ok \in BOOLEAN :
                  vms_launches' = [vms_launches EXCEPT ![n] =
                      HookRan("pre_launch", ok,
                              IF ok THEN [cur EXCEPT !.pre_conn =
                                              pre_launch_conn_type(cur.migration,
                                                                   cur.has_lvm_info)]
                              ELSE cur)]
    /\ UNCHANGED notLaunch

\* result = self.vmsapi.launch(instance_name, new_name, target, path, ...)
vmsapi_launch ==
    /\ AtHook("vmsapi_launch")
    /\ LET n == Len(vms_launches)
           cur == [vms_launches[n] EXCEPT !.vms_options = vms_options(vms_launches[n].nvifs)]
       IN  \E ok \in BOOLEAN :
              vms_launches' = [vms_launches EXCEPT ![n] = HookRan("vmsapi_launch", ok, cur)]
    /\ UNCHANGED notLaunch

\* self.post_launch(...); the hook of VmsConnection does nothing, the hook of
\* LibvirtConnection enables hairpin and applies the firewall filter
post_launch ==
    /\ AtHook("post_launch")
    /\ LET n == Len(vms_launches)
           cur == vms_launches[n]
       IN  IF cur.cls = "VmsConnection"
           THEN vms_launches' = [vms_launches EXCEPT ![n] = HookRan("post_launch", TRUE, cur)]
           ELSE \E ok \in BOOLEAN :
                  vms_launches' = [vms_launches EXCEPT ![n] =
                      HookRan("post_launch", ok,
                              IF ok THEN [cur EXCEPT !.hairpin =
                                              post_launch_conn_type(cur.migration)]
                              ELSE cur)]
    /\ UNCHANGED notLaunch

NextLaunch ==
    \/ \E cls \in ConnClasses, migration, has_lvm_info \in BOOLEAN, nvifs \in 0..1 :
          launch(cls, migration, nvifs, has_lvm_info)
    \/ pre_launch
    \/ vmsapi_launch
    \/ post_launch

SpecLaunch == Init /\ [][NextLaunch]_vars

(***************************************************************************)
(* SpecFetch: the download of one image file in LibvirtConnection's        *)
(* pre_launch, statement by statement, by launches that run at once.       *)
(***************************************************************************)
FetcherAt(f, pc) == fetchers' = [fetchers EXCEPT ![f].pc = pc]

\* statement stmt of the try block raises
FetchRaises(f, stmt) ==
    /\ fetchers' = [fetchers EXCEPT ![f].pc = except_pc, ![f].error = stmt]
    /\ UNCHANGED files

\* if migration or not os.path.exists(target)
fetch_check(f, migration) ==
    /\ fetchers[f].pc \in {"idle", "done", "raised"}
    /\ fetchers' = [fetchers EXCEPT ![f] =
           [pc |-> IF fetch_needed(migration, files[Target] # NoFile) THEN "mkstemp"
                   ELSE "done",
            migration |-> migration, temp_target |-> NoPath, error |-> "none"]]
    /\ UNCHANGED <<notFetch, files>>

\* fd, temp_target = tempfile.mkstemp(dir=image_base_path); os.close(fd)
fetch_mkstemp(f) ==
    /\ fetchers[f].pc = "mkstemp"
    /\ \E path \in TempPaths :
          /\ files[path] = NoFile
          /\ files' = [files EXCEPT ![path] = mkstemp_file]
          /\ fetchers' = [fetchers EXCEPT ![f].pc = "download", ![f].temp_target = path]
    /\ UNCHANGED notFetch

\* self.image_service.download(context, image_ref, temp_target): the next
\* chunk is written, or the download raises
fetch_download(f) ==
    /\ fetchers[f].pc = "download"
    /\ LET path == download_path(fetchers[f].temp_target, Target)
           fs == write_chunk(files, path, f)
       IN  \/ /\ files' = fs
              /\ FetcherAt(f, IF Len(fs[path].content) >= ImageChunks
                               THEN "chown" ELSE "download")
           \/ FetchRaises(f, "download")
    /\ UNCHANGED notFetch

\* os.chown(temp_target, self.openstack_uid, self.openstack_gid)
fetch_chown(f) ==
    /\ fetchers[f].pc = "chown"
    /\ \/ /\ files' = [files EXCEPT ![fetchers[f].temp_target].owner = "openstack"]
          /\ FetcherAt(f, "chmod")
       \/ FetchRaises(f, "chown")
    /\ UNCHANGED notFetch

\* os.chmod(temp_target, 0644)
fetch_chmod(f) ==
    /\ fetchers[f].pc = "chmod"
    /\ \/ /\ files' = [files EXCEPT ![fetchers[f].temp_target].mode = "0644"]
          /\ FetcherAt(f, "rename")
       \/ FetchRaises(f, "chmod")
    /\ UNCHANGED notFetch

\* os.rename(temp_target, target)
fetch_rename(f) ==
    /\ fetchers[f].pc = "rename"
    /\ \/ /\ files' = rename(files, fetchers[f].temp_target, Target)
          /\ fetchers' = [fetchers EXCEPT ![f].pc = "done", ![f].temp_target = NoPath]
       \/ FetchRaises(f, "rename")
    /\ UNCHANGED notFetch

\* except: os.unlink(temp_target); raise
fetch_unlink(f) ==
    /\ fetchers[f].pc = "unlink"
    /\ files' = [files EXCEPT ![fetchers[f].temp_target] = NoFile]
    /\ fetchers' = [fetchers EXCEPT ![f].pc = "raised", ![f].temp_target = NoPath]
    /\ UNCHANGED notFetch

NextFetch ==
    \E f \in Fetchers :
        \/ \E migration \in BOOLEAN : fetch_check(f, migration)
        \/ fetch_mkstemp(f)
        \/ fetch_download(f)
        \/ fetch_chown(f)
        \/ fetch_chmod(f)
        \/ fetch_rename(f)
        \/ fetch_unlink(f)

SpecFetch == Init /\ [][NextFetch]_vars

(***************************************************************************)
(* SpecArtifacts: bless, post_bless, bless_cleanup and discard of          *)
(* LibvirtConnection over the artifact store and the local files, one call *)
(* at a time.  Each call leaves in vlast what it was given, the calls it   *)
(* made to the backend and to the store, and what it returned.             *)
(***************************************************************************)
VmsCall(op, blessed_files, image_refs, outcome, returned_files, returned_refs, calls, removed) ==
    [op |-> op, durable |-> use_image_service, files |-> blessed_files,
     refs |-> image_refs,
     outcome |-> outcome, returned_files |-> returned_files,
     returned_refs |-> returned_refs, calls |-> calls, removed |-> removed,
     again |-> /\ vlast.op = op /\ vlast.files = blessed_files
               /\ vlast.refs = image_refs /\ vlast.outcome = "OK"]

BackendCall(method, ok) ==
    StoreCall(method, NoDescriptor, <<>>, IF ok THEN "ok" ELSE "error")

\* the call is done: vlast and trip
Called(call) ==
    /\ vlast' = call
    /\ trip' = advance(trip, call)

\* the service is started with cobalt_use_image_service set to flag, before
\* it takes any call
configure(flag) ==
    /\ vlast = NoVmsCall /\ images_created = 0 /\ local_files = {}
    /\ use_image_service # flag
    /\ use_image_service' = flag
    /\ vlast' = NoVmsCall
    /\ trip' = NoTrip
    /\ UNCHANGED <<store, local_files, images_created, notArt>>

\* bless(self, context, instance_name, new_instance_ref, migration_url);
\* blessed_files: the files the backend writes, ok: vmsapi.bless returned
bless(blessed_files) ==
    /\ \E ok \in BOOLEAN :
          IF ok
          THEN /\ local_files' = local_files \cup SeqToSet(blessed_files)
               /\ Called(VmsCall("bless", <<>>, <<>>, "OK", blessed_files, <<>>,
                                 <<BackendCall("vmsapi.bless", TRUE)>>, {}))
          ELSE /\ UNCHANGED local_files
               /\ Called(VmsCall("bless", <<>>, <<>>, "BackendError", <<>>, <<>>,
                                 <<BackendCall("vmsapi.bless", FALSE)>>, {}))
    /\ UNCHANGED <<use_image_service, store, images_created, notArt>>

\* post_bless(self, context, new_instance_ref, blessed_files, ...)
post_bless(blessed_files) ==
    /\ IF use_image_service
       THEN /\ images_created + Len(blessed_files) <= MaxImages
            /\ \E fail_at \in 0..(3 * Len(blessed_files) + 1) :
                  LET up == upload_files(store, images_created, local_files,
                                         blessed_files, fail_at)
                  IN  /\ store' = up.store
                      /\ images_created' = up.created
                      /\ Called(VmsCall("post_bless", blessed_files, <<>>, up.outcome,
                                        <<>>,
                                        IF up.outcome = "OK" THEN up.refs ELSE <<>>,
                                        up.calls, {}))
       ELSE /\ Called(VmsCall("post_bless", blessed_files, <<>>, "OK", blessed_files,
                              <<>>, <<>>, {}))
            /\ UNCHANGED <<store, images_created>>
    /\ UNCHANGED <<use_image_service, local_files, notArt>>

\* bless_cleanup(self, blessed_files)
bless_cleanup(blessed_files) ==
    /\ LET cl == IF use_image_service
                 THEN cleanup_loop([local |-> local_files, outcome |-> "OK"],
                                   blessed_files, 1)
                 ELSE [local |-> local_files, outcome |-> "OK"]
       IN  /\ local_files' = cl.local
           /\ Called(VmsCall("bless_cleanup", blessed_files, <<>>, cl.outcome, <<>>, <<>>,
                             <<>>, local_files \ cl.local))
    /\ UNCHANGED <<use_image_service, store, images_created, notArt>>

\* discard(self, context, instance_name, migration_url, image_refs);
\* backend_ok: vmsapi.discard returned
discard(image_refs) ==
    /\ \E backend_ok \in BOOLEAN :
          LET backend == BackendCall("vmsapi.discard", backend_ok)
          IN  IF discard_deletes(backend_ok, use_image_service)
              THEN \E fail_at \in 0..Len(image_refs) :
                     LET del == delete_images(store, image_refs, fail_at)
                     IN  /\ store' = del.store
                         /\ Called(VmsCall("discard", <<>>, image_refs,
                                           IF backend_ok THEN del.outcome
                                           ELSE "BackendError",
                                           <<>>, <<>>, <<backend>> \o del.calls,
                                           {a \in DOMAIN store :
                                               store[a] # NoImage /\ del.store[a] = NoImage}))
              ELSE /\ UNCHANGED store
                   /\ Called(VmsCall("discard", <<>>, image_refs,
                                     IF backend_ok THEN "OK" ELSE "BackendError",
                                     <<>>, <<>>, <<backend>>, {}))
    /\ UNCHANGED <<use_image_service, local_files, images_created, notArt>>

NextArtifacts ==
    \/ \E flag \in BOOLEAN : configure(flag)
    \/ \E blessed_files \in BackendFileLists : bless(blessed_files)
    \/ \E blessed_files \in FileLists : post_bless(blessed_files)
    \/ \E blessed_files \in FileLists : bless_cleanup(blessed_files)
    \/ \E image_refs \in RefLists : discard(image_refs)

SpecArtifacts == Init /\ [][NextArtifacts]_vars

(***************************************************************************)
(* SpecDispatch: get_vms_connection, called with compute drivers of        *)
(* several classes.  connections: the calls made so far, oldest first,     *)
(* each with the class name of the driver and what the call gave back:     *)
(* the exception raised, or the connection object (object: the number of   *)
(* the object, every construction makes a new one; 0: none).               *)
(***************************************************************************)
\* drivers = {...}
drivers ==
    [name \in {"FakeDriver", "LibvirtDriver", "XenAPIDriver", "XenApiDriver"} |->
        CASE name = "FakeDriver" -> "fake"
          [] name = "LibvirtDriver" -> "libvirt"
          [] name = "XenAPIDriver" -> "xenapi"
          [] name = "XenApiDriver" -> "xenapi"]

\* virt_driver.__class__.__name__ of the drivers a caller may pass
DriverNames ==
    DOMAIN drivers \cup {"VMwareESXDriver", "HyperVDriver", "libvirtdriver"}

\* drivers.get(driver_name, None)
drivers_get_DefaultLibvirt(driver_name) ==
    IF driver_name \in DOMAIN drivers THEN drivers[driver_name] ELSE "libvirt"

drivers_get(driver_name) ==
    IF driver_name \in DOMAIN drivers THEN drivers[driver_name] ELSE "None"

\* the class instantiated for a connection type ("none": no branch takes it)
connection_class(connection_type) ==
    CASE connection_type = "xenapi" -> "XenApiConnection"
      [] connection_type = "libvirt" -> "LibvirtConnection"
      [] connection_type = "fake" -> "DummyConnection"
      [] OTHER -> "none"

\* XenApiConnection(vmsapi, virt_driver), LibvirtConnection(...),
\* DummyConnection(...): a constructor call makes an object that did not
\* exist before
new_object(made) == Len(made) + 1

Connection(driver_name, outcome, message, connection_type, cls) ==
    [driver |-> driver_name, outcome |-> outcome, message |-> message,
     connection_type |-> connection_type, cls |-> cls,
     object |-> IF outcome = "OK" THEN new_object(connections) ELSE 0]

\* get_vms_connection(virt_driver)
get_vms_connection(driver_name) ==
    /\ Len(connections) < MaxConnections
    /\ LET connection_type == drivers_get(driver_name)
       IN  connections' = Append(connections,
               IF connection_type = "None"
               THEN Connection(driver_name, "NovaException",
                               "Unsupported compute driver", "none", "none")
               ELSE IF connection_class(connection_type) = "none"
               THEN Connection(driver_name, "NovaException",
                               "Unsupported connection type", "none", "none")
               ELSE Connection(driver_name, "OK", "none", connection_type,
                               connection_class(connection_type)))
    /\ UNCHANGED notDisp

NextDispatch == \E driver_name \in DriverNames : get_vms_connection(driver_name)

SpecDispatch == Init /\ [][NextDispatch]_vars

(***************************************************************************)
(* SpecCache: the part of LibvirtConnection.pre_launch that fetches the    *)
(* artifacts, taken as one step, one launch at a time.  The launch names   *)
(* no image or the one image whose file name is Target.  image_version:    *)
(* the content the store holds for it (the descriptor of a migrating       *)
(* instance changes).                                                      *)
(***************************************************************************)
TheImage == 1

\* the descriptor in the store is replaced
change_image ==
    /\ image_version < MaxVersions
    /\ image_version' = image_version + 1
    /\ plast' = NoPreLaunch
    /\ UNCHANGED <<files, artVars, notCache>>

\* the image cache manager removes the cached file
evict_target ==
    /\ files[Target] # NoFile
    /\ files' = [files EXCEPT ![Target] = NoFile]
    /\ plast' = NoPreLaunch
    /\ UNCHANGED <<image_version, artVars, notCache>>

\* the service is started with cobalt_use_image_service set to flag
start_service(flag) ==
    /\ use_image_service # flag
    /\ use_image_service' = flag
    /\ plast' = NoPreLaunch
    /\ UNCHANGED <<store, local_files, images_created, vlast, trip>>
    /\ UNCHANGED <<files, image_version, notCache>>

PreLaunch(migration, skip_image_service, image_refs, outcome, calls, artifact_path) ==
    [op |-> "pre_launch", migration |-> migration,
     skip_image_service |-> skip_image_service, durable |-> use_image_service,
     image_refs |-> image_refs, target_before |-> files[Target],
     outcome |-> outcome, calls |-> calls, artifact_path |-> artifact_path]

\* pre_launch(..., migration, skip_image_service, image_refs, ...), up to the
\* end of the loop over image_refs; raises: the statement that raises
\* ("none": none does)
pre_launch_fetch(migration, skip_image_service, image_refs, raises) ==
    /\ IF ~uses_image_service(skip_image_service, use_image_service)
       THEN /\ raises = "none"
            /\ plast' = PreLaunch(migration, skip_image_service, image_refs, "OK",
                                  <<>>, "None")
            /\ UNCHANGED files
       ELSE IF image_refs = <<>>
       THEN /\ raises = "none"
            /\ plast' = PreLaunch(migration, skip_image_service, image_refs, "OK",
                                  <<>>, "image_base_path")
            /\ UNCHANGED files
       ELSE IF raises = "show"
       THEN /\ plast' = PreLaunch(migration, skip_image_service, image_refs,
                                  "StoreError", <<"show">>, "none")
            /\ UNCHANGED files
       ELSE IF ~fetch_needed(migration, files[Target] # NoFile)
       THEN /\ raises = "none"
            /\ plast' = PreLaunch(migration, skip_image_service, image_refs, "OK",
                                  <<"show">>, "image_base_path")
            /\ UNCHANGED files
       ELSE IF raises # "none"
       THEN /\ plast' = PreLaunch(migration, skip_image_service, image_refs,
                                  IF raises = "download" THEN "StoreError" ELSE "OSError",
                                  IF raises = "download" THEN <<"show", "download">>
                                  ELSE <<"show", "download", raises>>, "none")
            /\ UNCHANGED files
       ELSE /\ plast' = PreLaunch(migration, skip_image_service, image_refs, "OK",
                                  <<"show", "download", "chown", "chmod", "rename">>,
                                  "image_base_path")
            /\ files' = [files EXCEPT ![Target] = fetched_file(image_version)]
    /\ UNCHANGED <<image_version, artVars, notCache>>

NextCache ==
    \/ change_image
    \/ evict_target
    \/ \E flag \in BOOLEAN : start_service(flag)
    \/ \E migration, skip_image_service \in BOOLEAN :
          \E image_refs \in {<<>>, <<TheImage>>} :
             \E raises \in {"none", "show", "download", "chown", "chmod", "rename"} :
                pre_launch_fetch(migration, skip_image_service, image_refs, raises)

SpecCache == Init /\ [][NextCache]_vars

(***************************************************************************)
(* SpecTransfer: export_instance and import_instance, one call at a time,  *)
(* each as one step.                                                       *)
(***************************************************************************)
Transfer(op, image_refs, outcome, steps, archive, artifacts) ==
    [op |-> op, image_refs |-> image_refs, durable |-> use_image_service,
     outcome |-> outcome, steps |-> steps, archive |-> archive,
     artifacts |-> artifacts, before |-> tmp_files]

\* export_instance(self, context, instance_ref, image_id, image_refs)
export_instance(image_refs) ==
    /\ \E fail_at \in {0} \cup {i \in 1..Len(image_refs) : ~image_refs[i].shared} :
          LET ex == pre_export_loop([fs |-> tmp_files, artifacts |-> {}, steps |-> <<>>,
                                     outcome |-> "OK"], image_refs, 1, fail_at)
          IN  IF ex.outcome # "OK"
              THEN /\ tmp_files' = ex.fs
                   /\ xlast' = Transfer("export", image_refs, ex.outcome, ex.steps,
                                        NoArchive, ex.artifacts)
              ELSE \E archive \in mkstemp_names(ex.fs) :
                        \E raises \in {"none", "vmsapi.export", "upload"} :
                           LET done == export_rest(ex, archive, raises)
                           IN  /\ tmp_files' = done.fs
                               /\ xlast' = Transfer("export", image_refs, done.outcome,
                                                    done.steps, archive, done.artifacts)
    /\ UNCHANGED notXfer

\* import_instance(self, context, instance_ref, image_id); artifacts: the
\* files the backend unpacks from the archive
import_instance(artifacts) ==
    /\ \E archive \in mkstemp_names(tmp_files) :
          \E raises \in {"none", "download", "download, unlink", "vmsapi.import_",
                         "upload"} :
             LET done == import_rest(tmp_files, archive, artifacts, use_image_service,
                                     raises)
             IN  /\ raises = "upload" => (use_image_service /\ artifacts # {})
                 /\ tmp_files' = done.fs
                 /\ xlast' = Transfer("import", <<>>, done.outcome, done.steps, archive,
                                      artifacts)
    /\ UNCHANGED notXfer

\* somebody removes a file that was left behind
remove_tmp_file(path) ==
    /\ path \in tmp_files
    /\ tmp_files' = tmp_files \ {path}
    /\ xlast' = NoTransfer
    /\ UNCHANGED notXfer

NextTransfer ==
    \/ \E image_refs \in ExportRefLists : export_instance(image_refs)
    \/ \E artifacts \in SUBSET {shared_path(id) : id \in ExportImages} :
          import_instance(artifacts)
    \/ \E path \in ArchivePaths \cup {shared_path(id) : id \in ExportImages} :
          remove_tmp_file(path)
    \/ \E flag \in BOOLEAN : start_service(flag)

SpecTransfer == Init /\ [][NextTransfer]_vars

(***************************************************************************)
(* SpecClean: periodic_clean of LibvirtConnection, and what else happens   *)
(* to the volume group directory and to the configuration.                 *)
(***************************************************************************)
\* the service is started with other options
set_clean_conf(images_type, flag) ==
    /\ clean_conf # [images_type |-> images_type, clean_unused_symlinks |-> flag]
    /\ clean_conf' = [images_type |-> images_type, clean_unused_symlinks |-> flag]
    /\ clast' = NoCleanCall
    /\ UNCHANGED <<vg_dir, notClean>>

\* a link is made or removed, a target appears or disappears, ...
change_entry(n, kind) ==
    /\ vg_dir.exists
    /\ vg_dir.entries[n] # kind
    /\ vg_dir' = [vg_dir EXCEPT !.entries[n] = kind]
    /\ clast' = NoCleanCall
    /\ UNCHANGED <<clean_conf, notClean>>

\* the volume group goes away (with its empty directory) or comes back
change_vg_dir ==
    /\ listdir(vg_dir) = {}
    /\ vg_dir' = [vg_dir EXCEPT !.exists = ~vg_dir.exists]
    /\ clast' = NoCleanCall
    /\ UNCHANGED <<clean_conf, notClean>>

CleanCall(outcome, logs, unlink_fails) ==
    [op |-> "periodic_clean", outcome |-> outcome, before |-> vg_dir.entries,
     existed |-> vg_dir.exists, conf |-> clean_conf, logs |-> logs,
     unlink_fails |-> unlink_fails]

\* periodic_clean(self), with _clean_lvm_symlinks; unlink_fails: the names
\* os.unlink fails on
periodic_clean ==
    /\ IF clean_conf.images_type # "lvm"
       THEN /\ clast' = CleanCall("OK", [n \in EntryNames |-> "none"], {})
            /\ UNCHANGED vg_dir
       ELSE IF ~vg_dir.exists
       THEN /\ clast' = CleanCall("OSError", [n \in EntryNames |-> "none"], {})
            /\ UNCHANGED vg_dir
       ELSE \E unlink_fails \in SUBSET {n \in listdir(vg_dir) :
                                         /\ vg_dir.entries[n] = "dangling"
                                         /\ clean_conf.clean_unused_symlinks} :
               /\ vg_dir' = [vg_dir EXCEPT !.entries =
                     [n \in EntryNames |->
                        IF n \in listdir(vg_dir)
                           /\ unlinked(vg_dir.entries[n],
                                       clean_conf.clean_unused_symlinks,
                                       n \in unlink_fails)
                        THEN "absent" ELSE vg_dir.entries[n]]]
               /\ clast' = CleanCall("OK",
                     [n \in EntryNames |->
                        IF n \in listdir(vg_dir)
                        THEN clean_entry(vg_dir.entries[n],
                                         clean_conf.clean_unused_symlinks,
                                         n \in unlink_fails)
                        ELSE "none"], unlink_fails)
    /\ UNCHANGED <<clean_conf, notClean>>

NextClean ==
    \/ \E images_type \in {"lvm", "default"}, flag \in BOOLEAN :
          set_clean_conf(images_type, flag)
    \/ \E n \in EntryNames, kind \in EntryKinds : change_entry(n, kind)
    \/ change_vg_dir
    \/ periodic_clean

SpecClean == Init /\ [][NextClean]_vars

(***************************************************************************)
(* Vocabulary of the properties.                                           *)
(***************************************************************************)
Tagged(rec, key) == \E pair \in rec.metadata : pair[1] = key

\* the call of last was made on an instance that was in the registry
OnRegistered(op) == last.op = op /\ last.pre # NoRecord /\ ~last.pre.deleted

\* the call raised none of the validation errors
Accepted(outcome) == outcome \in {"OK", "RpcError"}

NothingDone == Len(instances) = last.nbefore /\ last.sent = <<>>

LiveLaunchedFrom(t) ==
    {j \in 1..Len(instances) :
        ~instances[j].deleted /\ <<"launched_from", ToStr(t)>> \in instances[j].metadata}

DeletedLaunchedFrom(t) ==
    {j \in 1..Len(instances) :
        instances[j].deleted /\ <<"launched_from", ToStr(t)>> \in instances[j].metadata}

TemplatesOf(s) ==
    {t \in 1..Len(instances) : <<"blessed_from", ToStr(s)>> \in instances[t].metadata}

\* C1: no instance record carries both the blessed_from and the launched_from
\* tag, in any state of the registry.
C1_TagsExclusive ==
    \A i \in 1..Len(instances) :
        ~(Tagged(instances[i], "blessed_from") /\ Tagged(instances[i], "launched_from"))

\* a launch from a template has just succeeded: template and clone are both there
C1_Witness ==
    /\ OnRegistered("launch") /\ last.outcome = "OK"
    /\ Tagged(last.pre, "blessed_from")
    /\ Tagged(instances[Len(instances)], "launched_from")

\* C2: discard_instance on a template fails with HasDependents and sends
\* nothing while a non-deleted instance is launched_from it; when there is
\* none (all of them deleted) it succeeds and casts exactly one discard message.
C2_DiscardGuard ==
    (OnRegistered("discard") /\ Tagged(last.pre, "blessed_from")) =>
        IF LiveLaunchedFrom(last.id) # {}
        THEN last.outcome = "HasDependents" /\ NothingDone
        ELSE /\ last.outcome = "OK"
             /\ Len(instances) = last.nbefore
             /\ Len(last.sent) = 1
             /\ last.sent[1].kind = "cast"
             /\ last.sent[1].method = "discard_instance"
             /\ last.sent[1].instance_id = last.id

\* a discard succeeded on a template all of whose launched instances are deleted
C2_Witness ==
    /\ OnRegistered("discard") /\ last.outcome = "OK"
    /\ DeletedLaunchedFrom(last.id) # {}
    /\ LiveLaunchedFrom(last.id) = {}

\* C4, as stated: bless_instance on an instance that is not ACTIVE fails with
\* NotActive, whatever its tags, and creates no record.
C4_NotActiveWhateverTags ==
    (OnRegistered("bless") /\ last.pre.vm_state # ACTIVE) =>
        last.outcome = "NotActive" /\ NothingDone

\* C4, amended: bless_instance on an instance that is not ACTIVE always fails
\* and creates no record and sends nothing; the error is AlreadyBlessed for an
\* instance tagged blessed_from, else AlreadyLaunched for one tagged
\* launched_from, and NotActive for an instance with neither tag.
C4_NotActiveFails ==
    (OnRegistered("bless") /\ last.pre.vm_state # ACTIVE) =>
        /\ NothingDone
        /\ last.outcome =
              IF Tagged(last.pre, "blessed_from") THEN "AlreadyBlessed"
              ELSE IF Tagged(last.pre, "launched_from") THEN "AlreadyLaunched"
              ELSE "NotActive"

\* an untagged instance that is not active was refused
C4_Witness ==
    /\ OnRegistered("bless") /\ last.pre.vm_state # ACTIVE
    /\ ~Tagged(last.pre, "blessed_from") /\ ~Tagged(last.pre, "launched_from")
    /\ last.outcome = "NotActive"

\* C5: the blesses of one active, untagged source are all accepted, each adds
\* one new template record, the k-th of them (in call order, k = 0, 1, ...)
\* obtains clone number k and is named <source name>-<k>, and the source's
\* last_clone_num tag is the number of the latest one.
C5_CloneNumbersInOrder ==
    /\ \A s \in 1..Len(instances) :
          LET T == TemplatesOf(s)
              md == instances[s].metadata
          IN  /\ \A t \in T :
                    instances[t].display_name =
                        instances[s].display_name \o <<"-">>
                            \o ToStr(Cardinality({u \in T : u < t}))
              /\ IF T = {} THEN ~Tagged(instances[s], "last_clone_num")
                 ELSE <<"last_clone_num", ToStr(Cardinality(T) - 1)>> \in md
    /\ (/\ OnRegistered("bless") /\ last.pre.vm_state = ACTIVE
        /\ ~Tagged(last.pre, "blessed_from") /\ ~Tagged(last.pre, "launched_from"))
       => /\ Accepted(last.outcome)
          /\ Len(instances) = last.nbefore + 1
          /\ Len(instances) \in TemplatesOf(last.id)
          /\ last.clonenum = Cardinality(TemplatesOf(last.id)) - 1
          /\ last.clonenum =
                IF Tagged(last.pre, "last_clone_num")
                THEN ParseInt(MdGet(last.pre.metadata, "last_clone_num")) + 1
                ELSE 0

\* the second bless of one source has returned
C5_Witness ==
    /\ OnRegistered("bless") /\ last.outcome = "OK"
    /\ last.clonenum = 1
    /\ Cardinality(TemplatesOf(last.id)) = 2

\* C37: when the blocking worker call of bless_instance fails after the
\* validation passed, nothing is rolled back: the new template record, tagged
\* blessed_from and in BUILDING state, is in the registry, the source's
\* last_clone_num is the number the failed call took, and a bless of the same
\* source that is accepted afterwards takes a larger number than every
\* template the source already has, those of failed calls included.
C37_FailedBlessNotRolledBack ==
    /\ (OnRegistered("bless") /\ last.outcome = "RpcError") =>
          /\ Len(instances) = last.nbefore + 1
          /\ instances[Len(instances)].vm_state = BUILDING
          /\ ~instances[Len(instances)].deleted
          /\ <<"blessed_from", ToStr(last.id)>> \in instances[Len(instances)].metadata
          /\ <<"last_clone_num", ToStr(last.clonenum)>> \in instances[last.id].metadata
          /\ last.clonenum =
                (IF Tagged(last.pre, "last_clone_num")
                 THEN ParseInt(MdGet(last.pre.metadata, "last_clone_num")) ELSE -1) + 1
    /\ (OnRegistered("bless") /\ Accepted(last.outcome)) =>
          \A t \in TemplatesOf(last.id) :
              t <= last.nbefore =>
                  instances[t].display_name #
                      last.pre.display_name \o <<"-">> \o ToStr(last.clonenum)

\* a bless whose worker call failed is followed by an accepted bless of the
\* same source, which took the next number
C37_Witness ==
    /\ OnRegistered("bless") /\ Accepted(last.outcome)
    /\ last.clonenum = 1
    /\ \E t \in TemplatesOf(last.id) :
          /\ t <= last.nbefore
          /\ instances[t].vm_state = BUILDING
          /\ instances[t].display_name = last.pre.display_name \o <<"-", "0">>

\* the worker call of a bless has just failed
C37_WitnessFailed == OnRegistered("bless") /\ last.outcome = "RpcError"

\* the queue of a worker message sent for a record whose host is h
HostQueue(h) ==
    IF h = NoHost THEN <<gridcentric_topic>> ELSE <<gridcentric_topic, h>>

\* C40: every message sent by _cast_gridcentric_message and
\* _call_gridcentric_message carries the instance id in its args and goes to
\* one queue: the host queue of the host given by the caller, else of the
\* instance's recorded host, and the bare topic queue only when neither is
\* set; bless addresses the host of the source instance and carries the id of
\* the new template.
C40_MessageAddressing ==
    /\ \A m \in sent :
          m.method \in {"bless_instance", "discard_instance", "migrate_instance"} =>
              /\ m.instance_id \in 1..Len(instances)
              /\ m.queue \in {<<gridcentric_topic>>}
                              \cup {<<gridcentric_topic, h>> : h \in Hosts}
    /\ (last.op \in {"bless", "discard", "migrate"} /\ last.sent # <<>>) =>
          /\ Len(last.sent) = 1
          /\ last.sent[1] \in sent
          /\ last.sent[1].queue = HostQueue(last.pre.host)
          /\ IF last.op = "bless"
             THEN /\ last.sent[1].instance_id = last.nbefore + 1
                  /\ last.sent[1].instance_id # last.id
                  /\ <<"blessed_from", ToStr(last.id)>>
                         \in instances[last.sent[1].instance_id].metadata
             ELSE last.sent[1].instance_id = last.id

\* a bless of a source placed on a host was sent to that host's queue
C40_Witness ==
    /\ last.op = "bless" /\ last.sent # <<>>
    /\ last.pre.host \in Hosts
    /\ last.sent[1].queue = <<gridcentric_topic, last.pre.host>>

\* a discard or a migrate went to the queue of the instance's recorded host
C40_WitnessRecordedHost ==
    /\ last.op \in {"discard", "migrate"} /\ last.sent # <<>>
    /\ last.pre.host \in Hosts
    /\ last.sent[1].queue = <<gridcentric_topic, last.pre.host>>

\* a message went to the bare topic queue: no host was given or recorded
C40_WitnessBareTopic ==
    /\ last.op \in {"bless", "discard", "migrate"} /\ last.sent # <<>>
    /\ last.pre.host = NoHost
    /\ last.sent[1].queue = <<gridcentric_topic>>

\* C7: bless_instance on an instance tagged blessed_from fails with
\* AlreadyBlessed and does nothing, and no record's blessed_from names an
\* instance that itself carries blessed_from.
C7_NoReblessing ==
    /\ (OnRegistered("bless") /\ Tagged(last.pre, "blessed_from")) =>
          last.outcome = "AlreadyBlessed" /\ NothingDone
    /\ \A s, t \in 1..Len(instances) :
          t \in TemplatesOf(s) => ~Tagged(instances[s], "blessed_from")

\* an active template was refused
C7_Witness ==
    /\ OnRegistered("bless") /\ Tagged(last.pre, "blessed_from")
    /\ last.pre.vm_state = ACTIVE
    /\ last.outcome = "AlreadyBlessed"

C9_BlessOfLaunchedCompletes ==
    (OnRegistered("bless") /\ last.pre.vm_state = ACTIVE
        /\ Tagged(last.pre, "launched_from")) => Accepted(last.outcome)

\* C10, as stated: launch_instance on an instance without the blessed_from tag
\* fails with NotBlessed, creates no record and sends no message.
C10_LaunchOfUnblessed ==
    (OnRegistered("launch") /\ ~Tagged(last.pre, "blessed_from")) =>
        last.outcome = "NotBlessed" /\ NothingDone

\* C3, as stated: under every interleaving of launch_instance(t) and
\* discard_instance(t), no discard message for t is sent while a non-deleted
\* instance launched_from t exists, and no record launched_from t is created
\* after the discard of t was sent.
C3_DiscardOnlyWithoutLaunched ==
    /\ (last.op = "discard" /\ last.outcome = "OK") => LiveLaunchedFrom(last.id) = {}
    /\ \A p \in Procs :
          (procs[p].pc = "idle" /\ procs[p].op = "discard" /\ procs[p].outcome = "OK")
          => \A j \in (procs[p].nafter + 1)..Len(instances) :
                <<"launched_from", ToStr(procs[p].id)>> \notin instances[j].metadata

\* C6, as stated: under every interleaving of concurrent bless_instance calls
\* on one source, no two calls obtain the same clone number.
C6_DistinctCloneNumbers ==
    \A p, q \in Procs :
        (/\ p # q
         /\ procs[p].op = "bless" /\ procs[q].op = "bless"
         /\ procs[p].id = procs[q].id
         /\ procs[p].clonenum >= 0 /\ procs[q].clonenum >= 0)
        => procs[p].clonenum # procs[q].clonenum

\* the launch of last returned, and the caller's params were these
LaunchedWith(params) ==
    /\ last.op = "launch" /\ last.outcome = "OK"
    /\ Len(last.sent) = 1 /\ last.sent[1].params = params

\* the records the call of last added to the registry
NewIds == (last.nbefore + 1)..Len(instances)

\* C11, as stated: a launch_instance call whose params carry num_instances = N
\* creates exactly N new non-deleted records tagged launched_from the template
\* (the code keeps no launch index on a record, so the indices 0..N-1 are
\* counted by the records only).
C11_LaunchMultiple ==
    \A n \in 1..MaxNumInstances :
        LaunchedWith([NoParams EXCEPT !.num_instances = n]) =>
            /\ Cardinality(NewIds) = n
            /\ \A j \in NewIds :
                  /\ ~instances[j].deleted
                  /\ <<"launched_from", ToStr(last.id)>> \in instances[j].metadata

\* C12: discard_instance on a registered instance without the blessed_from tag
\* fails with NotBlessed and sends no discard message, whether or not other
\* instances reference it.
C12_DiscardOfUnblessed ==
    (OnRegistered("discard") /\ ~Tagged(last.pre, "blessed_from")) =>
        /\ last.outcome = "NotBlessed"
        /\ last.sent = <<>>
        /\ \A m \in sent : ~(m.method = "discard_instance" /\ m.instance_id = last.id)

\* a discard of a source that templates are blessed_from has just failed
C12_Witness ==
    /\ OnRegistered("discard") /\ ~Tagged(last.pre, "blessed_from")
    /\ TemplatesOf(last.id) # {}
    /\ last.outcome = "NotBlessed"

ValidationErrors ==
    {"AlreadyBlessed", "AlreadyLaunched", "NotActive", "NotBlessed", "HasDependents",
     "QuotaError", "KeypairNotFound"}

\* C13: when bless_instance, launch_instance or discard_instance fails with a
\* validation error, the call has created no record, has left the target's
\* record (its last_clone_num with it) as it was and has sent no message.
C13_FailureHasNoEffect ==
    (last.op \in {"bless", "launch", "discard"} /\ last.outcome \in ValidationErrors) =>
        /\ Len(instances) = last.nbefore
        /\ instances[last.id] = last.pre
        /\ last.sent = <<>>

\* a bless has just failed on a source that already holds a last_clone_num
C13_Witness ==
    /\ last.op = "bless" /\ last.outcome \in ValidationErrors
    /\ Tagged(last.pre, "last_clone_num")
    /\ instances[last.id] = last.pre

\* C14: a successful bless_instance(s) adds exactly one record to the
\* registry; that record is created in vm_state BUILDING, tagged blessed_from
\* with the id of s and without launched_from; s itself gains neither tag.
\* (First conjunct: the moment after the creation, before the worker is
\* called; second conjunct: the moment the call has returned.)
C14_BlessAddsOneTemplate ==
    /\ (procs[Caller].op = "bless" /\ procs[Caller].pc = "b_call") =>
          /\ Len(instances) = procs[Caller].nbefore + 1
          /\ procs[Caller].new_id = Len(instances)
          /\ instances[Len(instances)].vm_state = BUILDING
    /\ (last.op = "bless" /\ Accepted(last.outcome)) =>
          /\ Len(instances) = last.nbefore + 1
          /\ <<"blessed_from", ToStr(last.id)>> \in instances[Len(instances)].metadata
          /\ ~Tagged(instances[Len(instances)], "launched_from")
          /\ ~Tagged(instances[last.id], "blessed_from")
          /\ ~Tagged(instances[last.id], "launched_from")

\* a bless has returned with the worker having moved the new record on
C14_Witness ==
    /\ last.op = "bless" /\ last.outcome = "OK"
    /\ Len(instances) = last.nbefore + 1
    /\ instances[Len(instances)].vm_state = ACTIVE
    /\ Tagged(instances[Len(instances)], "blessed_from")

C17_LaunchWithNonexistentKey ==
    \A k \in KeyNames \ KeyPairs :
        ~LaunchedWith([NoParams EXCEPT !.key_name = k])

\* C18: bless_instance on an id that is not in the registry (never created,
\* or deleted) fails with InstanceNotFound, creates no record and sends no
\* message.
C18_BlessOfMissing ==
    (last.op = "bless" /\ (last.pre = NoRecord \/ last.pre.deleted)) =>
        last.outcome = "InstanceNotFound" /\ NothingDone

\* a bless of an id beyond the registry has just failed
C18_Witness ==
    /\ last.op = "bless" /\ last.id > Len(instances)
    /\ Len(instances) > 0
    /\ last.outcome = "InstanceNotFound"

\* the hooks a launch call has run, in the order it ran them
HooksOf(l) == [i \in 1..Len(l.calls) |-> l.calls[i][1]]

LaunchOrder == <<"pre_launch", "vmsapi_launch", "post_launch">>

\* C19: VmsConnection.launch runs pre_launch, then vmsapi.launch, then
\* post_launch: the hooks a call has run are always the first ones of that
\* order, post_launch is never run unless the backend launch has returned,
\* it has run exactly once when launch returns, and once vmsapi.launch has
\* returned the call is either about to run post_launch or has run it once.
C19_LaunchHookOrder ==
    \A n \in 1..Len(vms_launches) :
        LET l == vms_launches[n]
            hooks == HooksOf(l)
            posts == {i \in 1..Len(hooks) : hooks[i] = "post_launch"}
        IN  /\ Len(hooks) <= Len(LaunchOrder)
            /\ \A i \in 1..Len(hooks) : hooks[i] = LaunchOrder[i]
            /\ \A i \in posts :
                  \E j \in 1..(i - 1) : l.calls[j] = <<"vmsapi_launch", TRUE>>
            /\ l.pc = "returned" =>
                  l.calls = <<<<"pre_launch", TRUE>>, <<"vmsapi_launch", TRUE>>,
                              <<"post_launch", TRUE>>>>
            /\ (\E j \in 1..Len(l.calls) : l.calls[j] = <<"vmsapi_launch", TRUE>>) =>
                  IF l.pc = "post_launch" THEN posts = {} ELSE Cardinality(posts) = 1

\* a launch over libvirt has returned, its post_launch hook has done its work
C19_Witness ==
    \E n \in 1..Len(vms_launches) :
        /\ vms_launches[n].cls = "LibvirtConnection"
        /\ vms_launches[n].pc = "returned"
        /\ vms_launches[n].hairpin = "launch"
        /\ Len(vms_launches[n].calls) = 3

\* the file holds every chunk of one download
Complete(file) ==
    /\ Len(file.content) = ImageChunks
    /\ \A i \in 1..Len(file.content) : file.content[i] = file.content[1]

HoldsTemp(f) == fetchers[f].temp_target # NoPath

\* C20: under every interleaving of concurrent pre_launch downloads of one
\* image file, the target path is absent or holds a complete artifact at
\* every step: each download writes only to a temporary file of its own
\* (no two downloads share one, a temporary file holds the chunks of its own
\* download only) and the target is changed by the rename alone.
C20_TargetAbsentOrComplete ==
    /\ files[Target] = NoFile \/ Complete(files[Target])
    /\ \A f, g \in Fetchers :
          (f # g /\ HoldsTemp(f) /\ HoldsTemp(g)) =>
              fetchers[f].temp_target # fetchers[g].temp_target
    /\ \A f \in Fetchers : HoldsTemp(f) =>
          /\ fetchers[f].temp_target \in TempPaths
          /\ files[fetchers[f].temp_target] # NoFile
          /\ \A i \in 1..Len(files[fetchers[f].temp_target].content) :
                files[fetchers[f].temp_target].content[i] = f

\* the target is in place while another download is half way through
C20_Witness ==
    /\ Complete(files[Target])
    /\ \E g \in Fetchers :
          /\ fetchers[g].pc = "download"
          /\ Len(files[fetchers[g].temp_target].content) \in 1..(ImageChunks - 1)

\* what one step does to the download of f and to the cache directory
C21_FetchStep(f) ==
    LET a == fetchers[f]
        b == fetchers'[f]
    IN  /\ (a.error = "none" /\ b.error # "none") =>
              /\ a.pc \in {"download", "chown", "chmod", "rename"}
              /\ b.error = a.pc
              /\ b.pc = "unlink"
              /\ files' = files
        /\ (a.pc = "unlink" /\ b.pc # "unlink") =>
              /\ b.pc = "raised"
              /\ b.error = a.error
              /\ files'[a.temp_target] = NoFile
        /\ (b.pc # a.pc /\ b.pc \in {"done", "raised"} /\ a.temp_target # NoPath) =>
              files'[a.temp_target] = NoFile
        /\ (b # a /\ ~(a.pc = "rename" /\ b.pc = "done")) =>
              files'[Target] = files[Target]
        /\ (b.pc = "raised") => b.error # "none"
        /\ (b.pc = "done") => b.error = "none"

\* C21: when the download, chown, chmod or rename of a fetch raises, the
\* fetch goes to its except clause, which removes the temporary file and
\* re-raises that error; no step of a fetch other than its successful rename
\* changes the target file, and when a fetch has returned or raised, the
\* temporary file it held is gone.
C21_FailedFetchCleansUp == [][\A f \in Fetchers : C21_FetchStep(f)]_vars

\* a fetch has raised out of its rename, with no temporary file left and the
\* target of an earlier fetch in place
C21_Witness ==
    /\ \E f \in Fetchers : fetchers[f].pc = "raised" /\ fetchers[f].error = "rename"
    /\ \A path \in TempPaths : files[path] = NoFile
    /\ Complete(files[Target])

(***************************************************************************)
(* Vocabulary of the properties of SpecArtifacts.                          *)
(***************************************************************************)
\* the calls a VmsConnection call made to the store (all but the backend call)
StoreCallsOf(call) ==
    IF call.op \in {"bless", "discard"} THEN Tail(call.calls) ELSE call.calls

\* the store answered every call of it, none with an error of its own
StoreHealthy(call) ==
    \A i \in 1..Len(StoreCallsOf(call)) : StoreCallsOf(call)[i].response # "error"

\* the images the store created during the call
CreatedBy(call) ==
    {call.calls[i].image : i \in {j \in 1..Len(call.calls) :
        call.calls[j].method = "create" /\ call.calls[j].response = "ok"}}

IsDescriptor(image) == image.live_image /\ image.image_state = "available"

\* C22: discard calls the backend discard first and deletes store images
\* only after it, in durable mode: when the backend discard raises, the call
\* raises with no store call made and no image deleted; with durable mode
\* off no delete is attempted.
C22_BackendThenStore ==
    vlast.op = "discard" =>
        /\ Len(vlast.calls) >= 1
        /\ vlast.calls[1].method = "vmsapi.discard"
        /\ \A i \in 2..Len(vlast.calls) : vlast.calls[i].method = "delete"
        /\ vlast.calls[1].response = "error" =>
              /\ Len(vlast.calls) = 1
              /\ vlast.removed = {}
              /\ vlast.outcome = "BackendError"
        /\ ~vlast.durable => Len(vlast.calls) = 1 /\ vlast.removed = {}
        /\ vlast.removed \subseteq SeqToSet(vlast.refs)

C22_Witness ==
    /\ vlast.op = "discard" /\ vlast.durable
    /\ vlast.calls[1].response = "ok"
    /\ Len(vlast.calls) = 3
    /\ vlast.removed # {}

\* C23: in discard's deletion a not-found or forbidden answer of the store
\* is not raised and does not stop the loop: when the store gives no other
\* error, discard returns and every ref of image_refs got its delete, in
\* order; an error of another kind is raised to the caller.
C23_NotFoundAndForbiddenIgnored ==
    (vlast.op = "discard" /\ vlast.durable /\ vlast.calls[1].response = "ok") =>
        LET dels == StoreCallsOf(vlast)
        IN  /\ StoreHealthy(vlast) =>
                  /\ vlast.outcome = "OK"
                  /\ Len(dels) = Len(vlast.refs)
                  /\ \A i \in 1..Len(dels) :
                        dels[i].method = "delete" /\ dels[i].image = vlast.refs[i]
            /\ ~StoreHealthy(vlast) =>
                  /\ vlast.outcome = "StoreError"
                  /\ dels[Len(dels)].response = "error"

C23_Witness ==
    /\ vlast.op = "discard" /\ vlast.durable /\ vlast.outcome = "OK"
    /\ Len(vlast.refs) = 2
    /\ StoreCallsOf(vlast)[1].response = "forbidden"
    /\ StoreCallsOf(vlast)[2].response = "ok"

\* C24: a second deletion of the same image refs, after the first one has
\* returned, does not raise and leaves the store as it was (the store
\* answering with no error of its own).
C24_DeleteTwice ==
    (vlast.op = "discard" /\ vlast.durable /\ vlast.again
        /\ vlast.calls[1].response = "ok" /\ StoreHealthy(vlast)) =>
        /\ vlast.outcome = "OK"
        /\ vlast.removed = {}
        /\ \A i \in 1..Len(vlast.refs) :
              StoreCallsOf(vlast)[i].response \in {"not_found", "forbidden"}

C24_Witness ==
    /\ vlast.op = "discard" /\ vlast.durable /\ vlast.again
    /\ vlast.outcome = "OK"
    /\ Len(vlast.refs) = 2
    /\ \A i \in 1..2 : StoreCallsOf(vlast)[i].response = "not_found"
    /\ images_created >= 2

\* C25: in durable mode, after bless, post_bless of the files bless returned,
\* bless_cleanup of those files and discard of the image refs post_bless
\* returned, with no other call in between, the store holds none of these
\* images and none of these files is on local storage.
C25_RoundTripLeavesNothing ==
    trip.stage = "discarded" =>
        /\ \A i \in 1..Len(trip.refs) : store[trip.refs[i]] = NoImage
        /\ \A i \in 1..Len(trip.files) : trip.files[i] \notin local_files
        /\ Len(trip.refs) = Len(trip.files)

C25_Witness ==
    /\ trip.stage = "discarded"
    /\ Len(trip.files) = 2
    /\ Len(trip.refs) = 2
    /\ use_image_service

\* C26: bless_cleanup never raises, whatever list it is given; in durable
\* mode it removes the listed files that exist and no other file, with
\* durable mode off it removes nothing, and a second call with the same list
\* removes nothing.
C26_BlessCleanupIsSafe ==
    vlast.op = "bless_cleanup" =>
        /\ vlast.outcome = "OK"
        /\ vlast.calls = <<>>
        /\ vlast.removed \subseteq SeqToSet(vlast.files)
        /\ vlast.durable => SeqToSet(vlast.files) \cap local_files = {}
        /\ ~vlast.durable => vlast.removed = {}
        /\ vlast.again => vlast.removed = {}

C26_Witness ==
    /\ vlast.op = "bless_cleanup" /\ vlast.durable /\ vlast.again
    /\ Len(vlast.files) = 2
    /\ local_files # {}

\* C27: every durable upload that the store serves without an error of its
\* own leaves exactly one of the images it uploaded marked as the descriptor
\* (live_image true, image_state available), whatever files the list holds.
C27_ExactlyOneDescriptor ==
    (vlast.op = "post_bless" /\ vlast.durable /\ StoreHealthy(vlast)
        /\ vlast.files # <<>>) =>
        Cardinality({id \in CreatedBy(vlast) : IsDescriptor(store[id])}) = 1

\* C28: a durable post_bless in which a create, upload or update raises
\* leaves in the store no image created by it, and leaves the local files
\* as they were.
C28_FailedUploadLeavesNothing ==
    [][(vlast'.op = "post_bless" /\ vlast'.durable /\ vlast'.outcome = "StoreError") =>
          /\ \A id \in CreatedBy(vlast') : store'[id] = NoImage
          /\ local_files' = local_files]_vars

\* C29: a post_bless that returns has, in durable mode, uploaded every file
\* and returns one image id per file, in the order of the list (the i-th id
\* is the image of the i-th file); with durable mode off it returns the
\* list it was given and has made no call to the store.
C29_PostBlessReturn ==
    (vlast.op = "post_bless" /\ vlast.outcome = "OK") =>
        IF vlast.durable
        THEN /\ Len(vlast.returned_refs) = Len(vlast.files)
             /\ \A i \in 1..Len(vlast.files) :
                   /\ vlast.returned_refs[i] \in CreatedBy(vlast)
                   /\ store[vlast.returned_refs[i]].file_name = basename(vlast.files[i])
                   /\ store[vlast.returned_refs[i]].data
                   /\ \E j \in 1..Len(vlast.calls) :
                         /\ vlast.calls[j].method = "upload"
                         /\ vlast.calls[j].image = vlast.returned_refs[i]
                         /\ vlast.calls[j].file = vlast.files[i]
                         /\ vlast.calls[j].response = "ok"
             /\ \A i, j \in 1..Len(vlast.files) :
                   i # j => vlast.returned_refs[i] # vlast.returned_refs[j]
        ELSE /\ vlast.returned_files = vlast.files
             /\ vlast.calls = <<>>

C29_Witness ==
    /\ vlast.op = "post_bless" /\ vlast.outcome = "OK" /\ vlast.durable
    /\ Len(vlast.files) = 2
    /\ vlast.files[2] = disk_file

C29_WitnessLocalPaths ==
    /\ vlast.op = "post_bless" /\ vlast.outcome = "OK" /\ ~vlast.durable
    /\ Len(vlast.files) = 2

\* C30: get_vms_connection raises the unsupported-driver error for every
\* driver whose class name is not FakeDriver, LibvirtDriver, XenAPIDriver or
\* XenApiDriver, and gives back no backend then; for these four it returns
\* the fake, libvirt, xenapi and xenapi backend.
C30_UnknownDriverRejected ==
    \A i \in 1..Len(connections) :
        LET c == connections[i]
            known == {"FakeDriver", "LibvirtDriver", "XenAPIDriver", "XenApiDriver"}
        IN  /\ c.driver \notin known =>
                  /\ c.outcome = "NovaException"
                  /\ c.message = "Unsupported compute driver"
                  /\ c.connection_type = "none" /\ c.cls = "none"
            /\ c.driver \in known => c.outcome = "OK"
            /\ c.driver = "FakeDriver" =>
                  c.connection_type = "fake" /\ c.cls = "DummyConnection"
            /\ c.driver = "LibvirtDriver" =>
                  c.connection_type = "libvirt" /\ c.cls = "LibvirtConnection"
            /\ c.driver \in {"XenAPIDriver", "XenApiDriver"} =>
                  c.connection_type = "xenapi" /\ c.cls = "XenApiConnection"

C30_Witness ==
    /\ Len(connections) = MaxConnections
    /\ \E i \in 1..Len(connections) : connections[i].driver = "libvirtdriver"
    /\ \E i \in 1..Len(connections) : connections[i].driver = "XenApiDriver"
    /\ \E i \in 1..Len(connections) : connections[i].driver = "FakeDriver"

\* C31: any two calls of get_vms_connection for the same compute driver
\* return the same backend object.
C31_SameDriverSameBackend ==
    \A i, j \in 1..Len(connections) :
        (/\ connections[i].outcome = "OK" /\ connections[j].outcome = "OK"
         /\ connections[i].driver = connections[j].driver) =>
            connections[i].object = connections[j].object

\* C32: periodic_clean never raises, whatever the state of the directory;
\* a failure on one name is logged and the other names are still visited;
\* a name is removed only when it is a dangling link and
\* cobalt_clean_unused_symlinks is set; a name that resolves stays.
C32_CleanNeverRaises ==
    clast.op = "periodic_clean" =>
        /\ clast.outcome = "OK"
        /\ \A n \in EntryNames :
              /\ (clast.conf.images_type = "lvm" /\ clast.before[n] # "absent") =>
                    clast.logs[n] # "none"
              /\ vg_dir.entries[n] # clast.before[n] =>
                    /\ clast.before[n] = "dangling"
                    /\ clast.conf.clean_unused_symlinks
                    /\ vg_dir.entries[n] = "absent"
              /\ clast.before[n] \in {"active", "file"} =>
                    vg_dir.entries[n] = clast.before[n]

\* the rest of C32, for the calls in which the directory exists
C32_SweepContinues ==
    (clast.op = "periodic_clean" /\ clast.existed) =>
        /\ clast.outcome = "OK"
        /\ \A n \in EntryNames :
              /\ (clast.conf.images_type = "lvm" /\ clast.before[n] # "absent") =>
                    clast.logs[n] # "none"
              /\ vg_dir.entries[n] # clast.before[n] =>
                    /\ clast.before[n] = "dangling"
                    /\ clast.conf.clean_unused_symlinks
                    /\ vg_dir.entries[n] = "absent"
              /\ clast.before[n] \in {"active", "file"} =>
                    vg_dir.entries[n] = clast.before[n]

\* C33: bless_instance tests blessed_from first, launched_from second and
\* the state last: the error of a refused bless is that of the first test
\* the instance fails, so a template or a launched instance that is not
\* active is refused with AlreadyBlessed or AlreadyLaunched, not NotActive;
\* a bless that passes the three tests is accepted.
C33_BlessCheckOrder ==
    OnRegistered("bless") =>
        /\ Tagged(last.pre, "blessed_from") => last.outcome = "AlreadyBlessed"
        /\ (~Tagged(last.pre, "blessed_from") /\ Tagged(last.pre, "launched_from")) =>
              last.outcome = "AlreadyLaunched"
        /\ (/\ ~Tagged(last.pre, "blessed_from")
            /\ ~Tagged(last.pre, "launched_from")
            /\ last.pre.vm_state # ACTIVE) => last.outcome = "NotActive"
        /\ (/\ ~Tagged(last.pre, "blessed_from")
            /\ ~Tagged(last.pre, "launched_from")
            /\ last.pre.vm_state = ACTIVE) => Accepted(last.outcome)
        /\ ~Accepted(last.outcome) => NothingDone

\* a template still in BUILDING state was refused with AlreadyBlessed
C33_Witness ==
    /\ OnRegistered("bless")
    /\ Tagged(last.pre, "blessed_from")
    /\ last.pre.vm_state = BUILDING
    /\ last.outcome = "AlreadyBlessed"

\* a launched instance still in BUILDING state was refused with AlreadyLaunched
C33_WitnessLaunched ==
    /\ OnRegistered("bless")
    /\ Tagged(last.pre, "launched_from")
    /\ last.pre.vm_state = BUILDING
    /\ last.outcome = "AlreadyLaunched"

\* C34: launch_instance tests blessed_from before the quota: a launch from
\* an instance that is not a template never fails with the quota error,
\* however little quota is left.
C34_NotBlessedBeforeQuota ==
    (OnRegistered("launch") /\ ~Tagged(last.pre, "blessed_from")) =>
        last.outcome # "QuotaError"

\* C35: a pre_launch with durable mode on and skip_image_service false
\* downloads the artifact exactly when the launch is a migration or the
\* target file is not in the cache: after a migration launch that returns
\* the cached file is the store's current content, after another launch an
\* artifact that was cached is the file it was; with durable mode off or
\* skip_image_service set no store call is made, the cache is untouched and
\* the artifact path returned is None.
C35_FetchIffMigrationOrAbsent ==
    (plast.op = "pre_launch" /\ plast.image_refs # <<>>) =>
        IF plast.durable /\ ~plast.skip_image_service
        THEN (plast.calls # <<"show">> \/ plast.outcome = "OK") =>
                /\ (\E i \in 1..Len(plast.calls) : plast.calls[i] = "download")
                      <=> (plast.migration \/ plast.target_before = NoFile)
                /\ plast.outcome = "OK" =>
                      /\ plast.artifact_path = "image_base_path"
                      /\ plast.migration =>
                            /\ Complete(files[Target])
                            /\ files[Target].content[1] = image_version
                      /\ (~plast.migration /\ plast.target_before # NoFile) =>
                            files[Target] = plast.target_before
                /\ plast.outcome # "OK" => files[Target] = plast.target_before
        ELSE /\ plast.calls = <<>>
             /\ plast.outcome = "OK"
             /\ plast.artifact_path = "None"
             /\ files[Target] = plast.target_before

\* a migration launch replaced a cached file by the store's newer content
C35_Witness ==
    /\ plast.op = "pre_launch" /\ plast.outcome = "OK"
    /\ plast.durable /\ ~plast.skip_image_service /\ plast.migration
    /\ plast.target_before # NoFile
    /\ files[Target] # plast.target_before

\* a launch that is no migration left the cached file alone
C35_WitnessCached ==
    /\ plast.op = "pre_launch" /\ plast.outcome = "OK"
    /\ plast.durable /\ ~plast.skip_image_service /\ ~plast.migration
    /\ plast.target_before # NoFile
    /\ plast.target_before.content[1] # image_version
    /\ plast.calls = <<"show">>

\* C36: when pre_launch or the backend launch raises inside launch, the
\* call raises with that error and runs no hook after it: post_launch is
\* not run, and after a raising pre_launch the backend launch is not run.
C36_LaunchErrorPropagates ==
    \A n \in 1..Len(vms_launches) :
        LET l == vms_launches[n]
        IN  /\ (\E j \in 1..Len(l.calls) : l.calls[j] = <<"pre_launch", FALSE>>) =>
                  /\ l.pc = "raised"
                  /\ l.calls = <<<<"pre_launch", FALSE>>>>
            /\ (\E j \in 1..Len(l.calls) : l.calls[j] = <<"vmsapi_launch", FALSE>>) =>
                  /\ l.pc = "raised"
                  /\ l.calls = <<<<"pre_launch", TRUE>>, <<"vmsapi_launch", FALSE>>>>
                  /\ l.hairpin = "none"
            /\ l.pc = "raised" => l.calls[Len(l.calls)][2] = FALSE

\* the backend launch of a launch over libvirt raised
C36_Witness ==
    \E n \in 1..Len(vms_launches) :
        /\ vms_launches[n].cls = "LibvirtConnection"
        /\ vms_launches[n].pc = "raised"
        /\ vms_launches[n].calls = <<<<"pre_launch", TRUE>>, <<"vmsapi_launch", FALSE>>>>

\* pre_launch of a launch raised
C36_WitnessPreLaunch ==
    \E n \in 1..Len(vms_launches) :
        /\ vms_launches[n].pc = "raised"
        /\ vms_launches[n].calls = <<<<"pre_launch", FALSE>>>>

\* C38: pre_launch and post_launch of one launch over libvirt work on the
\* same libvirt driver: the migration driver exactly when migration is set
\* and lvm_info is not empty, the launch driver otherwise.
C38_SameLibvirtDriver ==
    \A n \in 1..Len(vms_launches) :
        LET l == vms_launches[n]
        IN  (l.cls = "LibvirtConnection" /\ l.hairpin # "none") =>
                /\ l.pre_conn = (IF l.migration /\ l.has_lvm_info THEN "migration"
                                 ELSE "launch")
                /\ l.hairpin = l.pre_conn

\* C39: export_instance and import_instance leave no temporary file behind.
\* A returning export has deleted the artifacts it downloaded, then
\* uploaded the archive, then deleted the archive; an import whose archive
\* download fails removes the archive and raises that error; and no export
\* or import, failing or not, ends with its archive still on disk.
C39_NoTempFileLeft ==
    xlast.op \in {"export", "import"} =>
        /\ xlast.archive \notin tmp_files
        /\ (xlast.op = "export" /\ xlast.outcome = "OK") =>
              /\ xlast.artifacts \cap tmp_files = {}
              /\ SubSeq(xlast.steps, Len(xlast.steps) - 2, Len(xlast.steps)) =
                    <<"unlink artifacts", "upload", "unlink archive">>

\* the parts of C39 about calls in which nothing but the archive download
\* of an import fails
C39_CleanWhenNothingElseFails ==
    /\ (xlast.op \in {"export", "import"} /\ xlast.outcome = "OK") =>
          xlast.archive \notin tmp_files
    /\ (xlast.op = "export" /\ xlast.outcome = "OK") =>
          /\ xlast.artifacts \cap tmp_files = {}
          /\ SubSeq(xlast.steps, Len(xlast.steps) - 2, Len(xlast.steps)) =
                <<"unlink artifacts", "upload", "unlink archive">>
    /\ (xlast.op = "import" /\ xlast.steps = <<"mkstemp", "download", "unlink archive">>
           /\ tmp_files = xlast.before) => xlast.outcome = "StoreError"

====
